---- MODULE Spec2Model ----
(***************************************************************************)
(* Model of the retrieval-to-itinerary pipeline of Explore-Sri-Lanka:      *)
(*   backend/langgraph_flow/models/pear_ranker.py   (retriever)            *)
(*   backend/services/coordinate_service.py         (gazetteer)            *)
(*   backend/langgraph_flow/models/geo_clustering.py (router, clusterer)   *)
(*   backend/router/clustered_recommendations.py    (plan request)         *)
(*                                                                         *)
(* Fixed-point units used for the program's floats:                        *)
(*   latitude / longitude      hundredths of a degree                      *)
(*   distances                 whole kilometres (rounded down)             *)
(*   neural / similarity score hundredths                                  *)
(*   pear_score                thousandths (7*neural + 3*similarity)       *)
(*   *_minutes                 whole minutes (rounded down)                *)
(*   estimated_time_hours      hours * 60                                  *)
(*   value_per_hour            thousandths (rounded down)                  *)
(* Python lists are sequences; list indices stored in data (optimal_order) *)
(* keep their 0-based values.  Optional values are sets with at most one   *)
(* element: {} is None and {v} is v.                                       *)
(***************************************************************************)
EXTENDS Integers, Sequences, FiniteSets, TLC

\* ------------------------------------------------------------------------
\* Bounds of the model
\* ------------------------------------------------------------------------
\* top_k of the retriever and the [:30] cut of the clusterer, scaled down
TopK == 5
\* vector_search_limit of the retriever, scaled down
MaxHits == 4
\* largest trip_duration_days a request carries
MaxDays == 2
\* largest number of pairwise route calls of one matrix that the provider fails
MaxRouteFailures == 1
\* top_k of the retriever runs made outside a plan request, scaled down
RetrieverTopK == 2
\* number of gazetteer lookups a process makes
MaxLookups == 2
\* largest matrix given to the greedy tour when it is called on its own
MaxTourSize == 4

\* ------------------------------------------------------------------------
\* Program constants
\* ------------------------------------------------------------------------
None == -1
DEFAULT_VISIT_MINUTES == 120
AVG_SPEED_KMH == 40
MIN_PER_CLUSTER == 2
BALANCE_MAX_DISTANCE_KM == 50
BALANCE_MAX_HOURS == 14
BALANCE_MIN_SIZE == 2
BALANCE_MAX_SIZE == 6
TRAVEL_PENALTY_MINUTES == 180
PLAN_RADIUS_KM == 40
DEFAULT_RADIUS_KM == 30
FUZZY_THRESHOLD == 80
FALLBACK_LAT == 787
FALLBACK_LNG == 8077

\* ------------------------------------------------------------------------
\* Generic helpers on sequences and numbers
\* ------------------------------------------------------------------------
Max2(a, b) == IF a >= b THEN a ELSE b

Min2(a, b) == IF a <= b THEN a ELSE b

Abs(x) == IF x < 0 THEN -x ELSE x

RECURSIVE SeqSum(_)
SeqSum(s) == IF s = <<>> THEN 0 ELSE Head(s) + SeqSum(Tail(s))

RECURSIVE SeqMax(_)
SeqMax(s) == IF s = <<>> THEN 0 ELSE Max2(Head(s), SeqMax(Tail(s)))

\* s[:n] of Python
Take(s, n) == IF n >= Len(s) THEN s ELSE SubSeq(s, 1, n)

RECURSIVE SqrtIter(_, _)
SqrtIter(n, x) ==
    LET y == (x + (n \div x)) \div 2
    IN IF y >= x THEN x ELSE SqrtIter(n, y)

\* floor of the square root
ISqrt(n) == IF n <= 0 THEN 0 ELSE SqrtIter(n, n)

\* ------------------------------------------------------------------------
\* geo_clustering.py: haversine_distance
\* For the latitudes of Sri Lanka (6..10 degrees) the great-circle distance
\* is the flat distance with 111 km per degree of latitude and 110 km per
\* degree of longitude, to within a kilometre; computed in units of 100 m.
\* ------------------------------------------------------------------------
haversine_distance(lat1, lng1, lat2, lng2) ==
    LET a == (111 * Abs(lat2 - lat1)) \div 10
        b == (110 * Abs(lng2 - lng1)) \div 10
    IN ISqrt(a * a + b * b) \div 10

\* ------------------------------------------------------------------------
\* coordinate_service.py: the gazetteer
\* ------------------------------------------------------------------------
\* name_to_coords after _load_locations_data, in file order; the keys are the
\* lower-cased canonical names
name_to_coords ==
    << [name |-> "sigiriya rock fortress", latitude |-> 796, longitude |-> 8076],
       [name |-> "dambulla cave temple",   latitude |-> 786, longitude |-> 8065],
       [name |-> "temple of the tooth",    latitude |-> 729, longitude |-> 8064],
       [name |-> "nuwara eliya",           latitude |-> 695, longitude |-> 8079] >>

\* str.lower() on the names of the model
lower(name) ==
    CASE name = "Sigiriya Rock Fortress" -> "sigiriya rock fortress"
      [] name = "SIGIRIYA ROCK FORTRESS" -> "sigiriya rock fortress"
      [] name = "Dambulla Cave Temple"   -> "dambulla cave temple"
      [] name = "Temple of the Tooth"    -> "temple of the tooth"
      [] name = "Nuwara Eliya"           -> "nuwara eliya"
      [] name = "Nuwara"                 -> "nuwara"
      [] name = "Temple"                 -> "temple"
      [] name = "Temple T"               -> "temple t"
      [] name = "Unknown Attraction"     -> "unknown attraction"
      [] name = "Hidden Waterfall"       -> "hidden waterfall"
      [] OTHER                           -> name

\* fuzz.partial_ratio of a query against the four stored names, in the order
\* of name_to_coords: the values fuzzywuzzy computes (100 when the shorter
\* string occurs in the longer, 0 for an empty string)
partial_ratios(query) ==
    CASE query = "sigiriya rock fortress" -> <<100, 23, 17, 33>>
      [] query = "dambulla cave temple"   -> <<23, 100, 48, 36>>
      [] query = "temple of the tooth"    -> <<17, 48, 100, 17>>
      [] query = "nuwara eliya"           -> <<33, 36, 17, 100>>
      [] query = "nuwara"                 -> <<33, 33, 0, 100>>
      [] query = "temple"                 -> <<36, 100, 100, 33>>
      [] query = "temple t"               -> <<31, 86, 88, 29>>
      [] query = "unknown attraction"     -> <<28, 24, 30, 42>>
      [] query = "hidden waterfall"       -> <<25, 36, 25, 52>>
      [] OTHER                            -> <<0, 0, 0, 0>>

\* fuzz.partial_ratio(query, stored_name)
partial_ratio(query, stored_name) ==
    LET i == CHOOSE j \in DOMAIN name_to_coords : name_to_coords[j].name = stored_name
    IN partial_ratios(query)[i]

\* the loop of _fuzzy_search_coordinates over name_to_coords.items(), from
\* entry i on, carrying best_score and best_match (an index, 0 for None)
RECURSIVE fuzzy_scan(_, _, _, _)
fuzzy_scan(query, i, best_score, best_match) ==
    IF i > Len(name_to_coords) THEN best_match
    ELSE LET score == partial_ratio(query, name_to_coords[i].name)
         IN IF score > best_score /\ score >= FUZZY_THRESHOLD
            THEN fuzzy_scan(query, i + 1, score, i)
            ELSE fuzzy_scan(query, i + 1, best_score, best_match)

\* _fuzzy_search_coordinates in which the last of the best-scoring entries wins
fuzzy_search_coordinates_last_best(attraction_name) ==
    LET query == lower(attraction_name)
        eligible == {i \in DOMAIN name_to_coords :
                        partial_ratio(query, name_to_coords[i].name) >= FUZZY_THRESHOLD}
        best == {i \in eligible : \A j \in eligible :
                    partial_ratio(query, name_to_coords[i].name)
                        >= partial_ratio(query, name_to_coords[j].name)}
    IN IF best = {} THEN {}
       ELSE LET m == CHOOSE i \in best : \A j \in best : j <= i
            IN {<<name_to_coords[m].latitude, name_to_coords[m].longitude>>}

\* CoordinateService._fuzzy_search_coordinates: {} or {<<lat, lng>>}
fuzzy_search_coordinates(attraction_name) ==
    LET m == fuzzy_scan(lower(attraction_name), 1, 0, 0)
    IN IF m = 0 THEN {}
       ELSE {<<name_to_coords[m].latitude, name_to_coords[m].longitude>>}

\* CoordinateService.get_coordinates: {} or {<<lat, lng>>}
get_coordinates(attraction_name) ==
    LET exact == {i \in DOMAIN name_to_coords :
                      name_to_coords[i].name = lower(attraction_name)}
    IN IF attraction_name = "" THEN {}
       ELSE IF exact # {}
            THEN LET i == CHOOSE j \in exact : TRUE
                 IN {<<name_to_coords[i].latitude, name_to_coords[i].longitude>>}
            ELSE fuzzy_search_coordinates(attraction_name)

\* the fallback branch of enrich_attraction_with_coordinates as it is
enrich_fallback(enhanced) ==
    [enhanced EXCEPT !.latitude = FALLBACK_LAT,
                     !.longitude = FALLBACK_LNG,
                     !.coordinate_source = "fallback_center"]

\* coordinate_service.py: enrich_attraction_with_coordinates
enrich_attraction_with_coordinates(attraction_data) ==
    LET enhanced == attraction_data
        coordinates == get_coordinates(enhanced.name)
    IN IF enhanced.latitude # None /\ enhanced.longitude # None
       THEN enhanced
       ELSE IF coordinates # {}
            THEN LET c == CHOOSE x \in coordinates : TRUE
                 IN [enhanced EXCEPT !.latitude = c[1],
                                     !.longitude = c[2],
                                     !.coordinate_source = "sri_lanka_locations_db"]
            ELSE enrich_fallback(enhanced)

\* ------------------------------------------------------------------------
\* pear_ranker.py: the retriever
\* ------------------------------------------------------------------------
\* the points of the vector collection, in the order a search returns them
\* (descending similarity to the query of the model); vector is the stored
\* embedding reduced to one coordinate; visit is the payload's
\* visit_duration_minutes, None when the payload has none; score is the
\* cosine similarity in hundredths, negative for the points that lie opposite
\* to the query
COLLECTION ==
    << [id |-> 1, name |-> "Sigiriya Rock Fortress", visit |-> 180,  vector |-> 1,  score |-> 90],
       [id |-> 2, name |-> "Dambulla Cave Temple",   visit |-> None, vector |-> 1,  score |-> 85],
       [id |-> 3, name |-> "Temple of the Tooth",    visit |-> 90,   vector |-> 0,  score |-> 80],
       [id |-> 4, name |-> "Nuwara Eliya",           visit |-> None, vector |-> 0,  score |-> 70],
       [id |-> 5, name |-> "Unknown Attraction",     visit |-> None, vector |-> -2, score |-> -90],
       [id |-> 6, name |-> "Hidden Waterfall",       visit |-> None, vector |-> -2, score |-> -90] >>

\* the weight initialisations nn.Linear can draw (torch's default random
\* initialisation, no seed is set), reduced to the sign of one weight
WEIGHTS == {-1, 1}

\* embeddings of the query and of the context text
QUERY_EMBED == 1
CONTEXT_EMBED == 0

\* nn.Sigmoid, in hundredths
Sigmoid(z) ==
    CASE z <= -2 -> 12
      [] z = -1  -> 27
      [] z = 0   -> 50
      [] z = 1   -> 73
      [] OTHER   -> 88

\* TravelPlaceRanker.forward in eval mode: the concatenated embeddings
\* through the linear layers and the sigmoid
neural_ranker(weights, user_query_embed, user_context_embed, place_embed) ==
    Sigmoid(weights * (user_query_embed + user_context_embed + place_embed))

\* 'pear_score': (neural_score * 0.7) + (result.score * 0.3), in thousandths
combined_score(neural_score, similarity_score) ==
    7 * neural_score + 3 * similarity_score

\* place_info of one search result
place_info(weights, result) ==
    LET neural_score == neural_ranker(weights, QUERY_EMBED, CONTEXT_EMBED, result.vector)
    IN [id |-> result.id,
        name |-> result.name,
        visit |-> result.visit,
        neural_score |-> neural_score,
        similarity_score |-> result.score,
        pear_score |-> combined_score(neural_score, result.score)]

\* list.sort(key=pear_score, reverse=True): stable, descending
RECURSIVE insert_desc(_, _)
insert_desc(sorted, x) ==
    IF sorted = <<>> THEN <<x>>
    ELSE IF Head(sorted).pear_score >= x.pear_score
         THEN <<Head(sorted)>> \o insert_desc(Tail(sorted), x)
         ELSE <<x>> \o sorted

RECURSIVE sort_by_pear_score(_)
sort_by_pear_score(s) ==
    IF s = <<>> THEN <<>>
    ELSE insert_desc(sort_by_pear_score(SubSeq(s, 1, Len(s) - 1)), s[Len(s)])

\* what the except clause of get_recommendations_from_vector_db returns
on_retrieval_exception == [raised |-> FALSE, places |-> <<>>]

\* a stored vector whose shape the first linear layer does not accept
MalformedVector == -99

\* self.neural_ranker(...) on the stored vector of a hit raises when the
\* concatenation does not have the width of the input layer
scoring_raises(result) == result.vector = MalformedVector

\* get_recommendations_from_vector_db without the sort before the cut
get_recommendations_without_sort(weights, index, top_k) ==
    IF ~index.ok THEN on_retrieval_exception
    ELSE IF index.hits = <<>> THEN [raised |-> FALSE, places |-> <<>>]
    ELSE IF \E i \in DOMAIN index.hits : scoring_raises(index.hits[i])
    THEN on_retrieval_exception
    ELSE LET ranked_places == [i \in DOMAIN index.hits |-> place_info(weights, index.hits[i])]
         IN [raised |-> FALSE, places |-> Take(ranked_places, top_k)]

\* PEARRanker.get_recommendations_from_vector_db.  index is the outcome of
\* the embedder and of qdrant_client.search: [ok |-> FALSE] when either
\* raises, else the hits.  The scoring loop has no handler of its own: an
\* exception on one hit leaves the loop and reaches the except clause of the
\* function.  The result says whether the call raised and the list it
\* returned.
get_recommendations_from_vector_db(weights, index, top_k) ==
    IF ~index.ok THEN on_retrieval_exception
    ELSE IF index.hits = <<>> THEN [raised |-> FALSE, places |-> <<>>]
    ELSE IF \E i \in DOMAIN index.hits : scoring_raises(index.hits[i])
    THEN on_retrieval_exception
    ELSE LET ranked_places == [i \in DOMAIN index.hits |-> place_info(weights, index.hits[i])]
         IN [raised |-> FALSE, places |-> Take(sort_by_pear_score(ranked_places), top_k)]

\* ------------------------------------------------------------------------
\* geo_clustering.py: GeoCluster
\* ------------------------------------------------------------------------
Latitudes(attractions) == [i \in DOMAIN attractions |-> attractions[i].latitude]

Longitudes(attractions) == [i \in DOMAIN attractions |-> attractions[i].longitude]

\* haversine distance between two attraction records
attraction_distance(attr1, attr2) ==
    haversine_distance(attr1.latitude, attr1.longitude, attr2.latitude, attr2.longitude)

\* the pairs i < j of the double loops over a list of n elements
Pairs(n) == {p \in (1..n) \X (1..n) : p[1] < p[2]}

RECURSIVE SetSum(_, _)
SetSum(S, f) ==
    IF S = {} THEN 0
    ELSE LET x == CHOOSE y \in S : TRUE IN f[x] + SetSum(S \ {x}, f)

SetMax(S, f) == IF S = {} THEN 0 ELSE CHOOSE m \in {f[x] : x \in S} : \A x \in S : f[x] <= m

\* GeoCluster._estimate_total_time: visit time of the members plus the
\* travel time the cluster holds at the moment of the call (hours * 60)
estimate_total_time(cluster) ==
    IF cluster.attractions = <<>> THEN 0
    ELSE SeqSum([i \in DOMAIN cluster.attractions |->
                    cluster.attractions[i].visit_duration_minutes])
         + cluster.total_travel_time_minutes

\* GeoCluster._calculate_travel_metrics: max pairwise distance, and the
\* average pairwise distance at 40 km/h times (size - 1) hops
calculate_travel_metrics(cluster) ==
    LET n == Len(cluster.attractions)
        dist == [p \in Pairs(n) |->
                    attraction_distance(cluster.attractions[p[1]], cluster.attractions[p[2]])]
        total_distance == SetSum(Pairs(n), dist)
        count == Cardinality(Pairs(n))
    IN IF n <= 1
       THEN [cluster EXCEPT !.total_travel_time_minutes = 0,
                            !.max_travel_distance_km = 0]
       ELSE [cluster EXCEPT
               !.max_travel_distance_km = SetMax(Pairs(n), dist),
               !.total_travel_time_minutes =
                   (total_distance * 60 * (n - 1)) \div (Max2(count, 1) * AVG_SPEED_KMH)]

\* GeoCluster._check_balance
check_balance(cluster) ==
    [cluster EXCEPT !.is_balanced =
        /\ cluster.max_travel_distance_km <= BALANCE_MAX_DISTANCE_KM
        /\ cluster.estimated_time_hours <= BALANCE_MAX_HOURS * 60
        /\ BALANCE_MIN_SIZE <= Len(cluster.attractions)
        /\ Len(cluster.attractions) <= BALANCE_MAX_SIZE
        /\ cluster.value_per_hour > 100]

\* GeoCluster._recalculate_metrics, in the order of its statements: the
\* estimated time and the value are computed before the travel metrics
recalculate_metrics(cluster) ==
    LET total_pear_score == SeqSum([i \in DOMAIN cluster.attractions |->
                                       cluster.attractions[i].pear_score])
        estimated_time_hours == estimate_total_time(cluster)
        c1 == [cluster EXCEPT
                 !.total_pear_score = total_pear_score,
                 !.estimated_time_hours = estimated_time_hours,
                 !.value_per_hour = (total_pear_score * 60) \div Max2(estimated_time_hours, 6)]
    IN check_balance(calculate_travel_metrics(c1))

\* GeoCluster._recalculate_center
recalculate_center(cluster) ==
    IF cluster.attractions = <<>> THEN cluster
    ELSE [cluster EXCEPT
            !.center_lat = SeqSum(Latitudes(cluster.attractions)) \div Len(cluster.attractions),
            !.center_lng = SeqSum(Longitudes(cluster.attractions)) \div Len(cluster.attractions)]

\* GeoCluster.add_attraction
add_attraction(cluster, attraction) ==
    LET c1 == [cluster EXCEPT
                 !.attractions = Append(cluster.attractions, attraction),
                 !.total_pear_score = cluster.total_pear_score + attraction.pear_score]
    IN recalculate_metrics(recalculate_center(c1))

\* the dataclass constructor with its field defaults
GeoCluster(cluster_id, center_lat, center_lng, attractions, region_name) ==
    [cluster_id |-> cluster_id,
     center_lat |-> center_lat,
     center_lng |-> center_lng,
     attractions |-> attractions,
     total_pear_score |-> 0,
     estimated_time_hours |-> 0,
     total_travel_time_minutes |-> 0,
     value_per_hour |-> 0,
     region_name |-> region_name,
     max_travel_distance_km |-> 0,
     is_balanced |-> TRUE,
     optimal_order |-> {}]

\* ------------------------------------------------------------------------
\* geo_clustering.py: AdvancedGeographicClusterer, the pure parts
\* ------------------------------------------------------------------------
\* AdvancedGeographicClusterer._get_region_name
get_region_name(lat, lng) ==
    IF lat > 900 THEN "Northern Province"
    ELSE IF lat > 800 /\ lng < 8000 THEN "North Western Province"
    ELSE IF lat > 750 /\ lng < 8050 THEN "Western Province"
    ELSE IF lat > 750 /\ lng > 8100 THEN "Eastern Province"
    ELSE IF lat > 680 /\ 8020 < lng /\ lng < 8120 THEN "Central Province"
    ELSE IF lat > 600 /\ lng < 8050 THEN "Southern Province"
    ELSE IF lng > 8100 THEN "Uva Province"
    ELSE "Sabaragamuwa Province"

\* AdvancedGeographicClusterer._create_cluster
create_cluster(cluster_id, attractions) ==
    IF attractions = <<>> THEN GeoCluster(cluster_id, 0, 0, <<>>, {})
    ELSE LET center_lat == SeqSum(Latitudes(attractions)) \div Len(attractions)
             center_lng == SeqSum(Longitudes(attractions)) \div Len(attractions)
         IN recalculate_metrics(
                GeoCluster(cluster_id, center_lat, center_lng, attractions,
                           {get_region_name(center_lat, center_lng)}))

\* AdvancedGeographicClusterer._create_single_cluster
create_single_cluster(attractions) ==
    IF attractions = <<>> THEN <<>> ELSE <<create_cluster(0, attractions)>>

\* sorted(attractions, key=pear_score, reverse=True) of _split_cluster
sorted_attractions(attractions) == sort_by_pear_score(attractions)

\* range(0, len, n_splits): every split dealt from the first member on
split_attractions_from_zero(sorted, i, n_splits) ==
    LET picks == {j \in 0..(Len(sorted) - 1) : j % n_splits = 0}
        k == Cardinality(picks)
    IN [m \in 1..k |-> sorted[(m - 1) * n_splits + 1]]

\* the members dealt to split i (0-based): range(i, len, n_splits)
split_attractions(sorted, i, n_splits) ==
    LET picks == {j \in 0..(Len(sorted) - 1) : j >= i /\ (j - i) % n_splits = 0}
        k == Cardinality(picks)
    IN [m \in 1..k |-> sorted[i + (m - 1) * n_splits + 1]]

\* AdvancedGeographicClusterer._split_cluster
split_cluster(cluster, max_attractions_per_cluster) ==
    LET attractions == cluster.attractions
        n_splits == (Len(attractions) + max_attractions_per_cluster - 1)
                        \div max_attractions_per_cluster
        sorted == sorted_attractions(attractions)
    IN [i \in 1..n_splits |-> create_cluster(i - 1, split_attractions(sorted, i - 1, n_splits))]

\* the score _find_best_cluster_for_attraction gives a cluster:
\* 1 / (1 + distance) + 0.3 * value_per_hour, in ten-thousandths
combined_cluster_score(distance, cluster) ==
    10 * (1000 \div (1 + distance)) + 3 * cluster.value_per_hour

\* the loop of _find_best_cluster_for_attraction from cluster i on, carrying
\* best_cluster (an index into clusters, 0 for None) and best_score (None
\* for -inf)
RECURSIVE find_best_scan(_, _, _, _, _, _)
find_best_scan(attraction, clusters, cfg, i, best_cluster, best_score) ==
    IF i > Len(clusters) THEN best_cluster
    ELSE LET cluster == clusters[i]
             distance == haversine_distance(attraction.latitude, attraction.longitude,
                                            cluster.center_lat, cluster.center_lng)
             combined == combined_cluster_score(distance, cluster)
         IN IF Len(cluster.attractions) >= cfg.max_attractions_per_cluster
            THEN find_best_scan(attraction, clusters, cfg, i + 1, best_cluster, best_score)
            ELSE IF distance > cfg.max_cluster_radius_km
            THEN find_best_scan(attraction, clusters, cfg, i + 1, best_cluster, best_score)
            ELSE IF best_score = None \/ combined > best_score
            THEN find_best_scan(attraction, clusters, cfg, i + 1, i, combined)
            ELSE find_best_scan(attraction, clusters, cfg, i + 1, best_cluster, best_score)

\* AdvancedGeographicClusterer._find_best_cluster_for_attraction: the index
\* of the chosen cluster, 0 for None
find_best_cluster_for_attraction(attraction, clusters, cfg) ==
    IF clusters = <<>> THEN 0
    ELSE find_best_scan(attraction, clusters, cfg, 1, 0, None)

\* AdvancedGeographicClusterer._can_add_to_cluster
can_add_to_cluster(attraction, cluster, cfg) ==
    LET distance == haversine_distance(attraction.latitude, attraction.longitude,
                                       cluster.center_lat, cluster.center_lng)
        max_distance_after_adding ==
            Max2(distance,
                 SeqMax([i \in DOMAIN cluster.attractions |->
                            attraction_distance(attraction, cluster.attractions[i])]))
    IN /\ Len(cluster.attractions) < cfg.max_attractions_per_cluster
       /\ distance <= cfg.max_cluster_radius_km
       /\ max_distance_after_adding <= cfg.max_cluster_radius_km

\* the first loop of _optimize_cluster_balance from cluster i on: the pair
\* <<balanced_clusters, redistributed_attractions>>
RECURSIVE balance_scan(_, _, _, _, _)
balance_scan(clusters, cfg, i, balanced_clusters, redistributed_attractions) ==
    IF i > Len(clusters) THEN <<balanced_clusters, redistributed_attractions>>
    ELSE LET cluster == clusters[i]
         IN IF cluster.is_balanced
            THEN balance_scan(clusters, cfg, i + 1,
                              Append(balanced_clusters, cluster), redistributed_attractions)
            ELSE IF Len(cluster.attractions) > cfg.max_attractions_per_cluster
            THEN balance_scan(clusters, cfg, i + 1,
                              balanced_clusters \o split_cluster(cluster, cfg.max_attractions_per_cluster),
                              redistributed_attractions)
            ELSE IF cluster.max_travel_distance_km > cfg.max_cluster_radius_km
            THEN balance_scan(clusters, cfg, i + 1,
                              balanced_clusters, redistributed_attractions \o cluster.attractions)
            ELSE balance_scan(clusters, cfg, i + 1,
                              Append(balanced_clusters, cluster), redistributed_attractions)

\* the second loop without its else branch: an orphan no cluster takes is
\* dropped
place_orphan_attach_only(attraction, clusters, cfg) ==
    LET best_cluster == find_best_cluster_for_attraction(attraction, clusters, cfg)
    IN IF best_cluster # 0 /\ can_add_to_cluster(attraction, clusters[best_cluster], cfg)
       THEN [clusters EXCEPT ![best_cluster] = add_attraction(clusters[best_cluster], attraction)]
       ELSE clusters

\* one orphan of the second loop of _optimize_cluster_balance (and one noise
\* point of _dbscan_with_routing): attach it or give it a cluster of its own
place_orphan(attraction, clusters, cfg) ==
    LET best_cluster == find_best_cluster_for_attraction(attraction, clusters, cfg)
    IN IF best_cluster # 0 /\ can_add_to_cluster(attraction, clusters[best_cluster], cfg)
       THEN [clusters EXCEPT ![best_cluster] = add_attraction(clusters[best_cluster], attraction)]
       ELSE Append(clusters, create_cluster(Len(clusters), <<attraction>>))

RECURSIVE redistribute(_, _, _)
redistribute(orphans, clusters, cfg) ==
    IF orphans = <<>> THEN clusters
    ELSE redistribute(Tail(orphans), place_orphan(Head(orphans), clusters, cfg), cfg)

\* AdvancedGeographicClusterer._optimize_cluster_balance
optimize_cluster_balance(clusters, cfg) ==
    LET r == balance_scan(clusters, cfg, 1, <<>>, <<>>)
    IN redistribute(r[2], r[1], cfg)

\* the pick of the tour with the highest index winning a tie
nearest_last_on_tie(distance_matrix, current, unvisited) ==
    CHOOSE x \in unvisited :
        \A y \in unvisited :
            \/ distance_matrix[<<current + 1, x + 1>>] < distance_matrix[<<current + 1, y + 1>>]
            \/ /\ distance_matrix[<<current + 1, x + 1>>] = distance_matrix[<<current + 1, y + 1>>]
               /\ x >= y

\* min(unvisited, key=distance_matrix[current][x]): indices are 0-based, the
\* matrix is indexed from 1; the lowest index wins a tie
nearest(distance_matrix, current, unvisited) ==
    CHOOSE x \in unvisited :
        \A y \in unvisited :
            \/ distance_matrix[<<current + 1, x + 1>>] < distance_matrix[<<current + 1, y + 1>>]
            \/ /\ distance_matrix[<<current + 1, x + 1>>] = distance_matrix[<<current + 1, y + 1>>]
               /\ x <= y

RECURSIVE tsp_loop(_, _, _, _)
tsp_loop(distance_matrix, tour, current, unvisited) ==
    IF unvisited = {} THEN tour
    ELSE LET next == nearest(distance_matrix, current, unvisited)
         IN tsp_loop(distance_matrix, Append(tour, next), next, unvisited \ {next})

\* AdvancedGeographicClusterer._solve_tsp_greedy on an n x n matrix
solve_tsp_greedy(distance_matrix, n) ==
    IF n <= 2 THEN [i \in 1..n |-> i - 1]
    ELSE tsp_loop(distance_matrix, <<0>>, 0, 1..(n - 1))

\* cluster_score without the bonus for balanced clusters
cluster_score_no_balance_bonus(cluster, cfg) ==
    LET travel_penalty == IF cluster.total_travel_time_minutes > TRAVEL_PENALTY_MINUTES
                          THEN 7 ELSE 10
        size_bonus == IF /\ cfg.min_attractions_per_cluster <= Len(cluster.attractions)
                         /\ Len(cluster.attractions) <= cfg.max_attractions_per_cluster
                      THEN 11 ELSE 10
    IN cluster.value_per_hour * 10 * travel_penalty * size_bonus

\* cluster_score of rank_clusters_by_value, times 1000 (each factor times 10)
cluster_score(cluster, cfg) ==
    LET base_score == cluster.value_per_hour
        balance_bonus == IF cluster.is_balanced THEN 12 ELSE 10
        travel_penalty == IF cluster.total_travel_time_minutes > TRAVEL_PENALTY_MINUTES
                          THEN 7 ELSE 10
        size_bonus == IF /\ cfg.min_attractions_per_cluster <= Len(cluster.attractions)
                         /\ Len(cluster.attractions) <= cfg.max_attractions_per_cluster
                      THEN 11 ELSE 10
    IN base_score * balance_bonus * travel_penalty * size_bonus

\* sorted(clusters, key=cluster_score, reverse=True): stable, descending
RECURSIVE insert_cluster(_, _, _)
insert_cluster(sorted, x, cfg) ==
    IF sorted = <<>> THEN <<x>>
    ELSE IF cluster_score(Head(sorted), cfg) >= cluster_score(x, cfg)
         THEN <<Head(sorted)>> \o insert_cluster(Tail(sorted), x, cfg)
         ELSE <<x>> \o sorted

\* AdvancedGeographicClusterer.rank_clusters_by_value
RECURSIVE rank_clusters_by_value(_, _)
rank_clusters_by_value(clusters, cfg) ==
    IF clusters = <<>> THEN <<>>
    ELSE insert_cluster(rank_clusters_by_value(SubSeq(clusters, 1, Len(clusters) - 1), cfg),
                        clusters[Len(clusters)], cfg)

\* ------------------------------------------------------------------------
\* geo_clustering.py: OpenStreetMapRouter
\* ------------------------------------------------------------------------
\* the driving distance the provider answers for two points whose
\* great-circle distance is km: roads are a quarter longer
provider_distance_km(km) == km + km \div 4

\* the driving duration the provider answers, in minutes: 30 km/h
provider_duration_minutes(km) == provider_distance_km(km) * 2

\* what a call of the provider can do: answer 200 with a route, answer
\* another status, raise in session.post (network error, timeout), or answer
\* 200 with a body that result['routes'][0]['summary'] cannot be read from
ProviderOutcomes == {"ok", "non_ok_status", "call_raises", "parse_raises"}

\* RouteInfo(distance_km, duration_minutes), and whether the call raised
RouteInfo(distance_km, duration_minutes) ==
    [raised |-> FALSE, distance_km |-> distance_km, duration_minutes |-> duration_minutes]

\* the three fallbacks of get_route_info: haversine and 40 km/h
haversine_fallback(start, end) ==
    LET distance == haversine_distance(start[1], start[2], end[1], end[2])
        duration == (distance * 60) \div AVG_SPEED_KMH
    IN RouteInfo(distance, duration)

\* get_route_info where a failure of the provider leaves the method
get_route_info_unguarded(api_key_set, outcome, start, end) ==
    LET distance == haversine_distance(start[1], start[2], end[1], end[2])
    IN IF ~api_key_set THEN haversine_fallback(start, end)
       ELSE IF outcome = "ok"
            THEN RouteInfo(provider_distance_km(distance), provider_duration_minutes(distance))
       ELSE IF outcome = "non_ok_status" THEN haversine_fallback(start, end)
       ELSE [raised |-> TRUE, distance_km |-> None, duration_minutes |-> None]

\* OpenStreetMapRouter.get_route_info: the provider's answer when there is a
\* key and the call succeeds, else the haversine fallback
get_route_info(api_key_set, outcome, start, end) ==
    LET distance == haversine_distance(start[1], start[2], end[1], end[2])
    IN IF ~api_key_set THEN haversine_fallback(start, end)
       ELSE IF outcome = "ok"
            THEN RouteInfo(provider_distance_km(distance), provider_duration_minutes(distance))
       ELSE IF outcome = "non_ok_status" THEN haversine_fallback(start, end)
       ELSE haversine_fallback(start, end)

\* a matrix filled by one provider call per direction: the call from the
\* higher index to the lower one is a call of its own, which succeeds
get_distance_matrix_per_direction(api_key_set, locations, failed) ==
    LET n == Len(locations)
    IN [p \in (1..n) \X (1..n) |->
          IF p[1] = p[2] THEN 0
          ELSE LET outcome == IF <<p[1], p[2]>> \in failed THEN "call_raises" ELSE "ok"
               IN get_route_info(api_key_set, outcome, locations[p[1]], locations[p[2]]).distance_km]

\* OpenStreetMapRouter.get_distance_matrix; failed is the set of pairs whose
\* provider call fails (every kind of failure gives the same RouteInfo)
get_distance_matrix(api_key_set, locations, failed) ==
    LET n == Len(locations)
    IN [p \in (1..n) \X (1..n) |->
          IF p[1] = p[2] THEN 0
          ELSE LET i == Min2(p[1], p[2])
                   j == Max2(p[1], p[2])
                   outcome == IF <<i, j>> \in failed THEN "call_raises" ELSE "ok"
               IN get_route_info(api_key_set, outcome, locations[i], locations[j]).distance_km]

locations_of(attractions) ==
    [i \in DOMAIN attractions |-> <<attractions[i].latitude, attractions[i].longitude>>]

\* ------------------------------------------------------------------------
\* Black boxes: the vector index and scikit-learn
\* ------------------------------------------------------------------------
\* what qdrant_client.search can return: at most MaxHits points of the
\* collection, in collection order
RECURSIVE Restrict(_, _, _)
Restrict(seq, S, i) ==
    IF i > Len(seq) THEN <<>>
    ELSE IF i \in S THEN <<seq[i]>> \o Restrict(seq, S, i + 1)
    ELSE Restrict(seq, S, i + 1)

SearchResults(limit) ==
    {Restrict(COLLECTION, S, 1) : S \in {T \in SUBSET DOMAIN COLLECTION : Cardinality(T) <= limit}}

\* the outcomes of embedding the query and searching the index
IndexOutcomes ==
    {[ok |-> FALSE, hits |-> <<>>]} \cup {[ok |-> TRUE, hits |-> h] : h \in SearchResults(MaxHits)}

\* KMeans(n_clusters).fit_predict: some label in 0..n_clusters-1 per sample
KMeansLabelings(n, n_clusters) == [1..n -> 0..(n_clusters - 1)]

\* DBSCAN(eps, min_samples, metric='precomputed').fit_predict
dbscan_neighbors(distance_matrix, n, eps, i) == {j \in 1..n : distance_matrix[<<i, j>>] <= eps}

dbscan_core(distance_matrix, n, eps, min_samples, i) ==
    Cardinality(dbscan_neighbors(distance_matrix, n, eps, i)) >= min_samples

\* the points a depth-first expansion labels, starting from the set C, when
\* the points of labelled already have a label
RECURSIVE dbscan_expand(_, _, _, _, _, _)
dbscan_expand(distance_matrix, n, eps, min_samples, C, labelled) ==
    LET more == {v \in (1..n) \ (labelled \cup C) :
                    \E u \in C : /\ dbscan_core(distance_matrix, n, eps, min_samples, u)
                                 /\ v \in dbscan_neighbors(distance_matrix, n, eps, u)}
    IN IF more = {} THEN C
       ELSE dbscan_expand(distance_matrix, n, eps, min_samples, C \cup more, labelled)

RECURSIVE dbscan_scan(_, _, _, _, _, _, _)
dbscan_scan(distance_matrix, n, eps, min_samples, i, labels, label_num) ==
    IF i > n THEN labels
    ELSE IF labels[i] # -1 \/ ~dbscan_core(distance_matrix, n, eps, min_samples, i)
    THEN dbscan_scan(distance_matrix, n, eps, min_samples, i + 1, labels, label_num)
    ELSE LET labelled == {j \in 1..n : labels[j] # -1}
             C == dbscan_expand(distance_matrix, n, eps, min_samples, {i}, labelled)
         IN dbscan_scan(distance_matrix, n, eps, min_samples, i + 1,
                        [j \in 1..n |-> IF j \in C THEN label_num ELSE labels[j]],
                        label_num + 1)

dbscan_fit_predict(distance_matrix, n, eps, min_samples) ==
    dbscan_scan(distance_matrix, n, eps, min_samples, 1, [j \in 1..n |-> -1], 0)

\* the labels of cluster_labels in the order of their first appearance,
\* which is the iteration order of clusters_dict
RECURSIVE labels_in_order(_, _, _)
labels_in_order(cluster_labels, i, seen) ==
    IF i > Len(cluster_labels) THEN <<>>
    ELSE IF cluster_labels[i] \in seen \/ cluster_labels[i] = -1
    THEN labels_in_order(cluster_labels, i + 1, seen)
    ELSE <<cluster_labels[i]>>
         \o labels_in_order(cluster_labels, i + 1, seen \cup {cluster_labels[i]})

\* clusters_dict[label]: the attractions with that label, in input order
members_of(attractions, cluster_labels, label) ==
    Restrict(attractions, {i \in DOMAIN attractions : cluster_labels[i] = label}, 1)

\* "Group attractions by cluster" and "Create GeoCluster objects"
clusters_from_labels(attractions, cluster_labels) ==
    LET order == labels_in_order(cluster_labels, 1, {})
    IN [k \in DOMAIN order |->
          create_cluster(order[k], members_of(attractions, cluster_labels, order[k]))]

\* ------------------------------------------------------------------------
\* State
\* ------------------------------------------------------------------------
VARIABLES
    pc,                 \* position of the request between its awaits
    request,            \* the ClusteredRecommendationRequest
    api_key,            \* whether OPENROUTE_SERVICE_API_KEY is set
    session,            \* OpenStreetMapRouter.session: "none", "open", "closed"
    pear_ranker,        \* weights of the request's neural ranker, {} before
    top_attractions,    \* result of get_recommendations_from_vector_db
    attractions,        \* the list handed to create_balanced_clusters
    clusterer,          \* the AdvancedGeographicClusterer's configuration
    algorithm,          \* the algorithm argument
    valid_attractions,  \* the coordinate-bearing inputs that are clustered
    distance_matrix,    \* the matrix the partition step works on
    clusters,           \* the cluster list being built, then the result
    order_index,        \* loop position of _optimize_visiting_order
    ranked_clusters,    \* result of rank_clusters_by_value
    response,           \* the HTTP response of the plan request
    index,              \* retriever runs: the fixed index outcome
    runs,               \* retriever runs: weights and result of each run
    locations_file_exists, \* whether data/sri_lanka_locations.json is there
    coordinate_service, \* the global _coordinate_service: "none" or "loaded"
    lookups,            \* direct gazetteer lookups made so far, with results
    route_info,         \* direct get_route_info call: its arguments and result
    tour                \* direct _solve_tsp_greedy call: {} or {tour}

vars == <<pc, request, api_key, session, pear_ranker, top_attractions, attractions,
          clusterer, algorithm, valid_attractions, distance_matrix, clusters,
          order_index, ranked_clusters, response, index, runs,
          locations_file_exists, coordinate_service, lookups, route_info, tour>>

clustering_vars == <<clusterer, algorithm, valid_attractions, distance_matrix,
                     clusters, order_index, session>>

retriever_vars == <<index, runs>>

\* the state of the direct calls, which a plan request leaves alone
unit_vars == <<locations_file_exists, lookups, route_info, tour>>

NoRequest == [trip_duration_days |-> 0, daily_travel_preference |-> "",
              max_attractions_per_day |-> 0]

NoClusterer == [max_cluster_radius_km |-> 0, max_daily_travel_time_hours |-> 0,
                min_attractions_per_cluster |-> 0, max_attractions_per_cluster |-> 0,
                target_clusters |-> 0]

NoResponse == [status |-> 0, total_days |-> 0, total_attractions |-> 0,
               daily_itineraries |-> <<>>]

RunIds == {1, 2}

NoRoute == [called |-> FALSE, start |-> <<0, 0>>, end |-> <<0, 0>>, outcome |-> "",
            result |-> RouteInfo(0, 0)]

NoRun == [weights |-> {}, done |-> FALSE, raised |-> FALSE, places |-> <<>>]

InitCommon ==
    /\ request = NoRequest
    /\ api_key \in BOOLEAN
    /\ session = "none"
    /\ pear_ranker = {}
    /\ top_attractions = <<>>
    /\ attractions = <<>>
    /\ clusterer = NoClusterer
    /\ algorithm = ""
    /\ valid_attractions = <<>>
    /\ distance_matrix = <<>>
    /\ clusters = <<>>
    /\ order_index = 0
    /\ ranked_clusters = <<>>
    /\ response = NoResponse
    /\ index = [ok |-> TRUE, hits |-> <<>>]
    /\ runs = [r \in RunIds |-> NoRun]
    /\ coordinate_service = "none"
    /\ lookups = <<>>
    /\ route_info = NoRoute
    /\ tour = {}

\* a process that has served no request yet; the locations file of the
\* deployment is there or not
Init == pc = "idle" /\ InitCommon /\ locations_file_exists \in BOOLEAN

\* ------------------------------------------------------------------------
\* router/clustered_recommendations.py: get_clustered_travel_plan
\* ------------------------------------------------------------------------
TravelPreferences == {"minimal", "balanced", "extensive"}

\* the values of max_attractions_per_day the model sends
MaxPerDayValues == {2, 3}

\* travel_time_mapping.get(preference, 3.0), in minutes
travel_time_mapping(preference) ==
    CASE preference = "minimal"   -> 120
      [] preference = "extensive" -> 270
      [] OTHER                    -> 180

\* "except Exception" of the handler: HTTPException(status_code=500)
InternalError == [NoResponse EXCEPT !.status = 500]

\* HTTPException(status_code=404, detail="No attractions found ...")
NotFound == [NoResponse EXCEPT !.status = 404]

\* the handler's "except Exception as e": whatever was raised inside the try
\* block, an HTTPException included, is answered as a 500
except_exception(exception) == InternalError

\* the request arrives
PostPlan ==
    /\ pc = "idle"
    /\ \E d \in 1..MaxDays, p \in TravelPreferences, m \in MaxPerDayValues :
          request' = [trip_duration_days |-> d, daily_travel_preference |-> p,
                      max_attractions_per_day |-> m]
    /\ pc' = "retrieve"
    /\ UNCHANGED <<api_key, pear_ranker, top_attractions, attractions, ranked_clusters,
                   response, clustering_vars, retriever_vars,
                   coordinate_service, unit_vars>>

\* Step 1: create_pear_ranker() and get_recommendations_from_vector_db; an
\* empty list raises HTTPException(404) inside the try block, which the
\* handler's "except Exception" turns into a 500
Retrieve ==
    /\ pc = "retrieve"
    /\ \E w \in WEIGHTS, out \in IndexOutcomes :
          LET r == get_recommendations_from_vector_db(w, out, TopK)
          IN /\ pear_ranker' = {w}
             /\ index' = out
             /\ top_attractions' = r.places
             /\ IF r.raised
                THEN pc' = "failed" /\ response' = except_exception(InternalError)
                ELSE IF r.places = <<>>
                THEN pc' = "failed" /\ response' = except_exception(NotFound)
                ELSE pc' = "enrich" /\ response' = response
    /\ UNCHANGED <<request, api_key, attractions, ranked_clusters, clustering_vars, runs,
                   coordinate_service, unit_vars>>

\* the attraction dict the handler builds from one recommendation
attraction_of(rec) ==
    [id |-> rec.id,
     name |-> rec.name,
     pear_score |-> rec.pear_score,
     visit_duration_minutes |-> IF rec.visit = None THEN DEFAULT_VISIT_MINUTES ELSE rec.visit,
     latitude |-> None,
     longitude |-> None,
     coordinate_source |-> ""]

has_coordinates(attraction) == attraction.latitude # None /\ attraction.longitude # None

\* the loop over top_attractions: enrich, keep those with coordinates
attractions_for_clustering(recs) ==
    LET enriched == [i \in DOMAIN recs |-> enrich_attraction_with_coordinates(attraction_of(recs[i]))]
    IN Restrict(enriched, {i \in DOMAIN enriched : has_coordinates(enriched[i])}, 1)

\* CoordinateService(): _load_locations_data raises FileNotFoundError when
\* the file is missing, and the global stays None
load_locations_data(file_exists) ==
    IF file_exists THEN [raised |-> FALSE, service |-> "loaded"]
    ELSE [raised |-> TRUE, service |-> "none"]

\* get_coordinate_service(): the singleton, constructed on first use
get_coordinate_service(service, file_exists) ==
    IF service = "none" THEN load_locations_data(file_exists)
    ELSE [raised |-> FALSE, service |-> service]

\* Step 2 with a locations file that cannot be opened: the exception of
\* get_coordinate_service() reaches the handler's "except Exception"
EnrichWithoutGazetteer ==
    /\ pc = "enrich"
    /\ get_coordinate_service(coordinate_service, locations_file_exists).raised
    /\ pc' = "failed"
    /\ response' = except_exception(InternalError)
    /\ clusterer' = [max_cluster_radius_km |-> PLAN_RADIUS_KM,
                     max_daily_travel_time_hours |-> travel_time_mapping(request.daily_travel_preference),
                     min_attractions_per_cluster |-> MIN_PER_CLUSTER,
                     max_attractions_per_cluster |-> request.max_attractions_per_day,
                     target_clusters |-> request.trip_duration_days]
    /\ UNCHANGED <<request, api_key, session, pear_ranker, top_attractions, attractions,
                   algorithm, valid_attractions, distance_matrix, clusters, order_index,
                   ranked_clusters, retriever_vars, coordinate_service, unit_vars>>

\* Step 2 up to the call of create_balanced_clusters
Enrich ==
    /\ pc = "enrich"
    /\ ~get_coordinate_service(coordinate_service, locations_file_exists).raised
    /\ coordinate_service' = get_coordinate_service(coordinate_service, locations_file_exists).service
    /\ clusterer' = [max_cluster_radius_km |-> PLAN_RADIUS_KM,
                     max_daily_travel_time_hours |-> travel_time_mapping(request.daily_travel_preference),
                     min_attractions_per_cluster |-> MIN_PER_CLUSTER,
                     max_attractions_per_cluster |-> request.max_attractions_per_day,
                     target_clusters |-> request.trip_duration_days]
    /\ attractions' = attractions_for_clustering(top_attractions)
    /\ algorithm' = "smart_clustering"
    /\ pc' = "cluster"
    /\ UNCHANGED <<request, api_key, session, pear_ranker, top_attractions, valid_attractions,
                   distance_matrix, clusters, order_index, ranked_clusters, response,
                   retriever_vars, unit_vars>>

\* ------------------------------------------------------------------------
\* geo_clustering.py: AdvancedGeographicClusterer.create_balanced_clusters
\* ------------------------------------------------------------------------
\* the provider calls of one matrix that fail
FailurePatterns(n) ==
    IF api_key THEN {F \in SUBSET Pairs(n) : Cardinality(F) <= MaxRouteFailures} ELSE {{}}

\* get_route_info opens the session on the first call made with a key
session_after_calls(n) == IF api_key /\ n >= 2 /\ session = "none" THEN "open" ELSE session

\* an exception leaves create_balanced_clusters; the plan handler answers 500
Raise ==
    /\ pc' = "failed"
    /\ response' = IF request = NoRequest THEN response ELSE InternalError

\* a filter that asks whether the keys exist, not whether they hold a value
coordinate_filter_key_present(attraction) ==
    attraction.latitude \in Int /\ attraction.longitude \in Int

\* the filter on latitude and longitude
coordinate_filter(attraction) == attraction.latitude # None /\ attraction.longitude # None

\* entry of create_balanced_clusters: the cut, the coordinate filter, the
\* single-cluster path, and the distance matrix every algorithm starts with
CreateBalancedClusters ==
    /\ pc = "cluster"
    /\ LET cut == Take(attractions, TopK)
           valid == Restrict(cut, {i \in DOMAIN cut : coordinate_filter(cut[i])}, 1)
       IN IF attractions = <<>>
          THEN /\ clusters' = <<>>
               /\ pc' = "clustered"
               /\ UNCHANGED <<valid_attractions, distance_matrix, session>>
          ELSE IF Len(valid) < clusterer.min_attractions_per_cluster
          THEN /\ clusters' = create_single_cluster(valid)
               /\ valid_attractions' = valid
               /\ pc' = "clustered"
               /\ UNCHANGED <<distance_matrix, session>>
          ELSE /\ \E failed \in FailurePatterns(Len(valid)) :
                     distance_matrix' = get_distance_matrix(api_key, locations_of(valid), failed)
               /\ valid_attractions' = valid
               /\ session' = session_after_calls(Len(valid))
               /\ pc' = "partition"
               /\ UNCHANGED clusters
    /\ UNCHANGED <<request, api_key, pear_ranker, top_attractions, attractions, clusterer,
                   algorithm, order_index, ranked_clusters, response, retriever_vars,
                   coordinate_service, unit_vars>>

\* n_clusters = max(1, min(target_clusters, n // min_attractions_per_cluster))
n_clusters(cfg, n) ==
    Max2(1, Min2(cfg.target_clusters, n \div cfg.min_attractions_per_cluster))

\* _weighted_clustering: dividing by max_dist = 0 leaves NaN in the matrix
\* given to KMeans, which raises ValueError
WeightedClustering ==
    /\ pc = "partition"
    /\ algorithm \notin {"kmeans_routing", "dbscan_routing"}
    /\ LET n == Len(valid_attractions)
           max_dist == SetMax(DOMAIN distance_matrix, distance_matrix)
       IN IF max_dist = 0
          THEN Raise /\ UNCHANGED clusters
          ELSE /\ \E cluster_labels \in KMeansLabelings(n, n_clusters(clusterer, n)) :
                     clusters' = clusters_from_labels(valid_attractions, cluster_labels)
               /\ pc' = "balance"
               /\ UNCHANGED response
    /\ distance_matrix' = <<>>
    /\ UNCHANGED <<request, api_key, session, pear_ranker, top_attractions, attractions,
                   clusterer, algorithm, valid_attractions, order_index, ranked_clusters,
                   retriever_vars,
                   coordinate_service, unit_vars>>

\* _optimize_cluster_balance
OptimizeClusterBalance ==
    /\ pc = "balance"
    /\ clusters' = optimize_cluster_balance(clusters, clusterer)
    /\ order_index' = 1
    /\ pc' = IF clusters' = <<>> THEN "clustered" ELSE "order"
    /\ UNCHANGED <<request, api_key, session, pear_ranker, top_attractions, attractions,
                   clusterer, algorithm, valid_attractions, distance_matrix, ranked_clusters,
                   response, retriever_vars,
                   coordinate_service, unit_vars>>

\* total_distance along the tour
RECURSIVE tour_distance(_, _, _)
tour_distance(matrix, optimal_order, i) ==
    IF i >= Len(optimal_order) THEN 0
    ELSE matrix[<<optimal_order[i] + 1, optimal_order[i + 1] + 1>>]
         + tour_distance(matrix, optimal_order, i + 1)

\* the body of the loop of _optimize_visiting_order for a cluster of more
\* than two attractions
order_cluster(cluster, matrix) ==
    LET optimal_order == solve_tsp_greedy(matrix, Len(cluster.attractions))
        total_distance == tour_distance(matrix, optimal_order, 1)
    IN recalculate_metrics(
          [cluster EXCEPT !.optimal_order = {optimal_order},
                          !.total_travel_time_minutes = (total_distance * 60) \div AVG_SPEED_KMH])

\* one iteration of the loop of _optimize_visiting_order (it awaits the
\* distance matrix of the cluster)
OptimizeVisitingOrder ==
    /\ pc = "order"
    /\ order_index <= Len(clusters)
    /\ LET cluster == clusters[order_index]
           n == Len(cluster.attractions)
       IN IF n <= 2
          THEN /\ clusters' = [clusters EXCEPT ![order_index] =
                                  [cluster EXCEPT !.optimal_order = {[i \in 1..n |-> i - 1]}]]
               /\ UNCHANGED session
          ELSE /\ \E failed \in FailurePatterns(n) :
                     clusters' = [clusters EXCEPT ![order_index] =
                        order_cluster(cluster,
                            get_distance_matrix(api_key, locations_of(cluster.attractions), failed))]
               /\ session' = session_after_calls(n)
    /\ order_index' = order_index + 1
    /\ pc' = IF order_index = Len(clusters) THEN "clustered" ELSE "order"
    /\ UNCHANGED <<request, api_key, pear_ranker, top_attractions, attractions, clusterer,
                   algorithm, valid_attractions, distance_matrix, ranked_clusters, response,
                   retriever_vars,
                   coordinate_service, unit_vars>>

\* _kmeans_with_routing: KMeans on the distance matrix, no balancing and
\* no visiting order
KMeansWithRouting ==
    /\ pc = "partition"
    /\ algorithm = "kmeans_routing"
    /\ LET n == Len(valid_attractions)
       IN \E cluster_labels \in KMeansLabelings(n, n_clusters(clusterer, n)) :
             clusters' = clusters_from_labels(valid_attractions, cluster_labels)
    /\ distance_matrix' = <<>>
    /\ pc' = "clustered"
    /\ UNCHANGED <<request, api_key, session, pear_ranker, top_attractions, attractions,
                   clusterer, algorithm, valid_attractions, order_index, ranked_clusters,
                   response, retriever_vars,
                   coordinate_service, unit_vars>>

\* _dbscan_with_routing: DBSCAN on the distance matrix, then the noise
\* points are attached or given clusters of their own
DBSCANWithRouting ==
    /\ pc = "partition"
    /\ algorithm = "dbscan_routing"
    /\ LET n == Len(valid_attractions)
           cluster_labels == dbscan_fit_predict(distance_matrix, n,
                                 clusterer.max_cluster_radius_km,
                                 clusterer.min_attractions_per_cluster)
           noise_attractions == members_of(valid_attractions, cluster_labels, -1)
       IN clusters' = redistribute(noise_attractions,
                                   clusters_from_labels(valid_attractions, cluster_labels),
                                   clusterer)
    /\ distance_matrix' = <<>>
    /\ pc' = "clustered"
    /\ UNCHANGED <<request, api_key, session, pear_ranker, top_attractions, attractions,
                   clusterer, algorithm, valid_attractions, order_index, ranked_clusters,
                   response, retriever_vars,
                   coordinate_service, unit_vars>>

\* ------------------------------------------------------------------------
\* get_clustered_travel_plan, Steps 3 to 5
\* ------------------------------------------------------------------------
\* ordered_attractions of a day: cluster.attractions, in optimal_order when
\* the cluster has one
ordered_attractions(cluster) ==
    IF cluster.optimal_order = {} THEN cluster.attractions
    ELSE LET optimal_order == CHOOSE o \in cluster.optimal_order : TRUE
         IN IF optimal_order = <<>> THEN cluster.attractions
            ELSE [k \in DOMAIN optimal_order |-> cluster.attractions[optimal_order[k] + 1]]

\* the DayItinerary built for the cluster of one day
day_itinerary(day, cluster) ==
    [day |-> day,
     cluster |-> cluster,
     cluster_info |-> [cluster_id |-> cluster.cluster_id,
                       total_attractions |-> Len(cluster.attractions),
                       travel_time_minutes |-> cluster.total_travel_time_minutes,
                       estimated_time_hours |-> cluster.estimated_time_hours,
                       value_per_hour |-> cluster.value_per_hour,
                       is_balanced |-> cluster.is_balanced,
                       optimal_visiting_order |-> cluster.optimal_order],
     attractions |-> LET ordered == ordered_attractions(cluster)
                     IN [k \in DOMAIN ordered |->
                            [id |-> ordered[k].id,
                             name |-> ordered[k].name,
                             latitude |-> ordered[k].latitude,
                             longitude |-> ordered[k].longitude,
                             coordinate_source |-> ordered[k].coordinate_source,
                             visit_order |-> k]],
     total_travel_distance_km |-> cluster.max_travel_distance_km]

\* enumerate(selected_clusters, 1)
daily_itineraries_of(selected_clusters) ==
    [k \in DOMAIN selected_clusters |-> day_itinerary(k, selected_clusters[k])]

\* Steps 3 to 5: rank, cut to trip_duration_days, build the days, compute
\* the statistics (dividing by the number of days), close the clusterer
RankAndAssemble ==
    /\ pc = "clustered"
    /\ LET ranked == rank_clusters_by_value(clusters, clusterer)
           selected_clusters == Take(ranked, request.trip_duration_days)
           daily_itineraries == daily_itineraries_of(selected_clusters)
       IN /\ ranked_clusters' = ranked
          /\ IF daily_itineraries = <<>>
             THEN /\ pc' = "failed"
                  /\ response' = InternalError
                  /\ UNCHANGED session
             ELSE /\ pc' = "done"
                  /\ session' = IF session = "open" THEN "closed" ELSE session
                  /\ response' =
                        [status |-> 200,
                         total_days |-> Len(daily_itineraries),
                         total_attractions |->
                             SeqSum([k \in DOMAIN daily_itineraries |->
                                        Len(daily_itineraries[k].attractions)]),
                         daily_itineraries |-> daily_itineraries]
    /\ UNCHANGED <<request, api_key, pear_ranker, top_attractions, attractions, clusterer,
                   algorithm, valid_attractions, distance_matrix, clusters, order_index,
                   retriever_vars,
                   coordinate_service, unit_vars>>

PlanNext ==
    \/ PostPlan
    \/ Retrieve
    \/ Enrich
    \/ EnrichWithoutGazetteer
    \/ CreateBalancedClusters
    \/ WeightedClustering
    \/ OptimizeClusterBalance
    \/ OptimizeVisitingOrder
    \/ RankAndAssemble

\* one plan request through the router
Spec == Init /\ [][PlanNext]_vars

\* ------------------------------------------------------------------------
\* A plan request from the moment its retrieval has returned, with the
\* handler scheduled as the event loop schedules a coroutine: a step that
\* can be taken is eventually taken
\* ------------------------------------------------------------------------
\* the largest number of hits of these retrievals
MaxSessionHits == 2

InitSession ==
    /\ pc = "enrich"
    /\ \E d \in 1..MaxDays, p \in TravelPreferences, m \in MaxPerDayValues :
          request = [trip_duration_days |-> d, daily_travel_preference |-> p,
                     max_attractions_per_day |-> m]
    /\ api_key \in BOOLEAN
    /\ session = "none"
    /\ \E w \in WEIGHTS, h \in SearchResults(MaxSessionHits) \ {<<>>} :
          /\ pear_ranker = {w}
          /\ index = [ok |-> TRUE, hits |-> h]
          /\ top_attractions = get_recommendations_from_vector_db(w, [ok |-> TRUE, hits |-> h], TopK).places
    /\ attractions = <<>>
    /\ clusterer = NoClusterer
    /\ algorithm = ""
    /\ valid_attractions = <<>>
    /\ distance_matrix = <<>>
    /\ clusters = <<>>
    /\ order_index = 0
    /\ ranked_clusters = <<>>
    /\ response = NoResponse
    /\ runs = [r \in RunIds |-> NoRun]
    /\ coordinate_service = "none"
    /\ lookups = <<>>
    /\ route_info = NoRoute
    /\ tour = {}
    /\ locations_file_exists \in BOOLEAN

SessionNext ==
    \/ Enrich
    \/ EnrichWithoutGazetteer
    \/ CreateBalancedClusters
    \/ WeightedClustering
    \/ OptimizeClusterBalance
    \/ OptimizeVisitingOrder
    \/ RankAndAssemble

\* the handler has not returned or raised yet
Running == pc \notin {"done", "failed"}

\* the positions of the handler after retrieval
SessionPositions == {"enrich", "cluster", "partition", "balance", "order", "clustered",
                     "done", "failed"}

\* the event loop resumes the coroutine: every step of SessionNext moves pc
\* or order_index, and a running handler always has such a step
HandlerStep ==
    /\ Running
    /\ pc' \in SessionPositions
    /\ order_index' \in 0..(TopK + 1)

SessionSpec == InitSession /\ [][SessionNext]_vars /\ WF_<<pc, order_index>>(HandlerStep)

\* ------------------------------------------------------------------------
\* Plan requests with any field values a client can send
\* ------------------------------------------------------------------------
\* ClusteredRecommendationRequest as pydantic validates it: the two fields
\* are declared int with Field(...) that carries no ge / le, so every integer
\* is accepted and only a value that is no integer is refused
request_model_accepts(body) ==
    body.trip_duration_days \in Int /\ body.max_attractions_per_day \in Int

\* request bodies with integer fields: in range, and out of range at either
\* end of either field
RequestBodies ==
    {[trip_duration_days |-> d, daily_travel_preference |-> "balanced",
      max_attractions_per_day |-> m] :
        <<d, m>> \in {<<1, 2>>, <<0, 2>>, <<31, 2>>, <<1, 1>>, <<1, 7>>}}

\* a request body arrives; the handler runs when the request model accepts it
PostAnyPlan ==
    /\ pc = "idle"
    /\ \E body \in RequestBodies :
          /\ request_model_accepts(body)
          /\ request' = body
    /\ pc' = "retrieve"
    /\ UNCHANGED <<api_key, pear_ranker, top_attractions, attractions, ranked_clusters,
                   response, clustering_vars, retriever_vars, coordinate_service, unit_vars>>

AnyPlanNext ==
    \/ PostAnyPlan
    \/ Retrieve
    \/ Enrich
    \/ EnrichWithoutGazetteer
    \/ CreateBalancedClusters
    \/ WeightedClustering
    \/ OptimizeClusterBalance
    \/ OptimizeVisitingOrder
    \/ RankAndAssemble

\* one plan request whose fields are not restricted to their documented ranges
ValidationSpec == Init /\ [][AnyPlanNext]_vars

\* ------------------------------------------------------------------------
\* create_balanced_clusters called directly (tests, demo): any algorithm,
\* candidates whose coordinates the caller supplies or leaves out
\* ------------------------------------------------------------------------
Algorithms == {"smart_clustering", "kmeans_routing", "dbscan_routing"}

\* a candidate a caller builds from a retrieved place: its coordinates are
\* the gazetteer's, or absent when the gazetteer has none
candidate_of(rec) ==
    LET attraction == attraction_of(rec)
        coordinates == get_coordinates(rec.name)
    IN IF coordinates = {} THEN attraction
       ELSE LET c == CHOOSE x \in coordinates : TRUE
            IN [attraction EXCEPT !.latitude = c[1], !.longitude = c[2],
                                  !.coordinate_source = "caller"]

\* candidates whose coordinates the caller assigns itself, as the clustering
\* test does for the names it cannot match: two high-scoring places 44 km
\* apart east-west, and three places going north from the point between
\* them, the last one east of longitude 81
AssignedCandidates ==
    << [id |-> 11, name |-> "Attraction_0", pear_score |-> 900, visit_duration_minutes |-> 120,
        latitude |-> 700, longitude |-> 8075, coordinate_source |-> "caller"],
       [id |-> 12, name |-> "Attraction_1", pear_score |-> 900, visit_duration_minutes |-> 120,
        latitude |-> 700, longitude |-> 8115, coordinate_source |-> "caller"],
       [id |-> 13, name |-> "Attraction_2", pear_score |-> 500, visit_duration_minutes |-> 120,
        latitude |-> 745, longitude |-> 8095, coordinate_source |-> "caller"],
       [id |-> 14, name |-> "Attraction_3", pear_score |-> 500, visit_duration_minutes |-> 120,
        latitude |-> 720, longitude |-> 8095, coordinate_source |-> "caller"],
       [id |-> 15, name |-> "Attraction_4", pear_score |-> 500, visit_duration_minutes |-> 120,
        latitude |-> 768, longitude |-> 8108, coordinate_source |-> "caller"] >>

\* the candidate lists of the direct calls: up to TopK + 1 places of the
\* collection, or the caller's own list
CandidateLists ==
    {[i \in DOMAIN h |-> candidate_of(place_info(1, h[i]))] : h \in SearchResults(TopK + 1)}
        \cup {AssignedCandidates}

\* the values of min_attractions_per_cluster the direct callers configure
MinPerClusterValues == {2, 3}

DirectCall ==
    /\ pc = "idle"
    /\ \E a \in Algorithms, t \in 1..MaxDays, m \in MaxPerDayValues, c \in CandidateLists,
          mn \in MinPerClusterValues :
          /\ algorithm' = a
          /\ attractions' = c
          /\ clusterer' = [max_cluster_radius_km |-> DEFAULT_RADIUS_KM,
                           max_daily_travel_time_hours |-> 180,
                           min_attractions_per_cluster |-> mn,
                           max_attractions_per_cluster |-> m,
                           target_clusters |-> t]
    /\ pc' = "cluster"
    /\ UNCHANGED <<request, api_key, session, pear_ranker, top_attractions, valid_attractions,
                   distance_matrix, clusters, order_index, ranked_clusters, response,
                   retriever_vars,
                   coordinate_service, unit_vars>>

ClustererNext ==
    \/ DirectCall
    \/ CreateBalancedClusters
    \/ WeightedClustering
    \/ KMeansWithRouting
    \/ DBSCANWithRouting
    \/ OptimizeClusterBalance
    \/ OptimizeVisitingOrder

\* the callers pass coordinates themselves; the locations file is there
InitClusterer == pc = "idle" /\ InitCommon /\ locations_file_exists = TRUE

ClustererSpec == InitClusterer /\ [][ClustererNext]_vars

\* ------------------------------------------------------------------------
\* OpenStreetMapRouter.get_route_info called directly
\* ------------------------------------------------------------------------
\* the points routes are asked between: the gazetteer's and the fallback centre
RoutePoints ==
    {<<name_to_coords[i].latitude, name_to_coords[i].longitude>> : i \in DOMAIN name_to_coords}
    \cup {<<FALLBACK_LAT, FALLBACK_LNG>>}

InitRouter == pc = "router" /\ InitCommon /\ locations_file_exists = TRUE

\* one call of get_route_info; without a key the provider is not called,
\* with a key the session is opened and the provider does one of the things
\* it can do
GetRouteInfo ==
    /\ pc = "router"
    /\ \E start \in RoutePoints, end \in RoutePoints,
          outcome \in (IF api_key THEN ProviderOutcomes ELSE {"not_called"}) :
          route_info' = [called |-> TRUE, start |-> start, end |-> end, outcome |-> outcome,
                         result |-> get_route_info(api_key, outcome, start, end)]
    /\ session' = IF api_key /\ session = "none" THEN "open" ELSE session
    /\ UNCHANGED <<pc, request, api_key, pear_ranker, top_attractions, attractions, clusterer,
                   algorithm, valid_attractions, distance_matrix, clusters, order_index,
                   ranked_clusters, response, retriever_vars, coordinate_service,
                   locations_file_exists, lookups, tour>>

RouterNext == GetRouteInfo

RouterSpec == InitRouter /\ [][RouterNext]_vars

\* ------------------------------------------------------------------------
\* coordinate_service.py: get_attraction_coordinates called directly
\* ------------------------------------------------------------------------
\* the names looked up: canonical names in several spellings, parts of
\* names, names the gazetteer does not know, and the empty name
LookupNames ==
    {"Sigiriya Rock Fortress", "SIGIRIYA ROCK FORTRESS", "Dambulla Cave Temple",
     "Temple of the Tooth", "Nuwara Eliya", "Nuwara", "Temple", "Temple T",
     "Unknown Attraction", ""}

InitGazetteer ==
    pc = "gazetteer" /\ InitCommon /\ api_key = FALSE /\ locations_file_exists \in BOOLEAN

\* get_attraction_coordinates(name): the singleton is constructed on first
\* use, which raises when the locations file is missing; else the lookup
GetAttractionCoordinates(attraction_name) ==
    /\ pc = "gazetteer"
    /\ Len(lookups) < MaxLookups
    /\ LET service == get_coordinate_service(coordinate_service, locations_file_exists)
       IN /\ coordinate_service' = service.service
          /\ lookups' = Append(lookups,
                [name |-> attraction_name,
                 raised |-> service.raised,
                 coordinates |-> IF service.raised THEN {}
                                 ELSE get_coordinates(attraction_name)])
    /\ UNCHANGED <<pc, request, api_key, session, pear_ranker, top_attractions, attractions,
                   clusterer, algorithm, valid_attractions, distance_matrix, clusters,
                   order_index, ranked_clusters, response, retriever_vars,
                   locations_file_exists, route_info, tour>>

GazetteerNext == \E attraction_name \in LookupNames : GetAttractionCoordinates(attraction_name)

GazetteerSpec == InitGazetteer /\ [][GazetteerNext]_vars

\* ------------------------------------------------------------------------
\* AdvancedGeographicClusterer._solve_tsp_greedy called on any matrix
\* ------------------------------------------------------------------------
\* the distances between two different points of a matrix: few values, so
\* that ties are frequent
TourDistances == {1, 2, 3}

\* the symmetric n x n matrices with a zero diagonal, as get_distance_matrix
\* builds them
DistanceMatrices(n) ==
    {[p \in (1..n) \X (1..n) |->
         IF p[1] = p[2] THEN 0 ELSE d[<<Min2(p[1], p[2]), Max2(p[1], p[2])>>]] :
     d \in [Pairs(n) -> TourDistances]}

\* distance_matrix.shape[0]
shape(matrix) == ISqrt(Cardinality(DOMAIN matrix))

InitTsp ==
    /\ pc = "tsp"
    /\ request = NoRequest
    /\ api_key = FALSE
    /\ session = "none"
    /\ pear_ranker = {}
    /\ top_attractions = <<>>
    /\ attractions = <<>>
    /\ clusterer = NoClusterer
    /\ algorithm = ""
    /\ valid_attractions = <<>>
    /\ \E n \in 2..MaxTourSize : distance_matrix \in DistanceMatrices(n)
    /\ clusters = <<>>
    /\ order_index = 0
    /\ ranked_clusters = <<>>
    /\ response = NoResponse
    /\ index = [ok |-> TRUE, hits |-> <<>>]
    /\ runs = [r \in RunIds |-> NoRun]
    /\ locations_file_exists = TRUE
    /\ coordinate_service = "none"
    /\ lookups = <<>>
    /\ route_info = NoRoute
    /\ tour = {}

\* _solve_tsp_greedy(distance_matrix)
SolveTspGreedy ==
    /\ pc = "tsp"
    /\ tour = {}
    /\ tour' = {solve_tsp_greedy(distance_matrix, shape(distance_matrix))}
    /\ UNCHANGED <<pc, request, api_key, session, pear_ranker, top_attractions, attractions,
                   clusterer, algorithm, valid_attractions, distance_matrix, clusters,
                   order_index, ranked_clusters, response, retriever_vars, coordinate_service,
                   locations_file_exists, lookups, route_info>>

TspNext == SolveTspGreedy

TspSpec == InitTsp /\ [][TspNext]_vars

\* ------------------------------------------------------------------------
\* Two retrievers, constructed separately, run against the same index
\* ------------------------------------------------------------------------
InitRetriever ==
    /\ pc = "retriever"
    /\ request = NoRequest
    /\ api_key = FALSE
    /\ session = "none"
    /\ pear_ranker = {}
    /\ top_attractions = <<>>
    /\ attractions = <<>>
    /\ clusterer = NoClusterer
    /\ algorithm = ""
    /\ valid_attractions = <<>>
    /\ distance_matrix = <<>>
    /\ clusters = <<>>
    /\ order_index = 0
    /\ ranked_clusters = <<>>
    /\ response = NoResponse
    /\ index \in IndexOutcomes
    /\ runs = [r \in RunIds |-> NoRun]
    /\ locations_file_exists = TRUE
    /\ coordinate_service = "none"
    /\ lookups = <<>>
    /\ route_info = NoRoute
    /\ tour = {}

\* the weights a newly constructed TravelPlaceRanker holds when no
\* model_path is given
initial_weights == WEIGHTS

\* create_pear_ranker(): PEARRanker.__init__ without model_path
CreatePearRanker(r) ==
    /\ pc = "retriever"
    /\ runs[r].weights = {}
    /\ \E w \in initial_weights : runs' = [runs EXCEPT ![r].weights = {w}]
    /\ UNCHANGED <<pc, request, api_key, session, pear_ranker, top_attractions, attractions,
                   clusterer, algorithm, valid_attractions, distance_matrix, clusters,
                   order_index, ranked_clusters, response, index,
                   coordinate_service, unit_vars>>

\* get_recommendations_from_vector_db on retriever r
RunRetriever(r) ==
    /\ pc = "retriever"
    /\ runs[r].weights # {}
    /\ ~runs[r].done
    /\ LET w == CHOOSE x \in runs[r].weights : TRUE
           res == get_recommendations_from_vector_db(w, index, RetrieverTopK)
       IN runs' = [runs EXCEPT ![r].done = TRUE,
                               ![r].raised = res.raised,
                               ![r].places = res.places]
    /\ UNCHANGED <<pc, request, api_key, session, pear_ranker, top_attractions, attractions,
                   clusterer, algorithm, valid_attractions, distance_matrix, clusters,
                   order_index, ranked_clusters, response, index,
                   coordinate_service, unit_vars>>

RetrieverNext == \E r \in RunIds : CreatePearRanker(r) \/ RunRetriever(r)

RetrieverSpec == InitRetriever /\ [][RetrieverNext]_vars

\* ------------------------------------------------------------------------
\* The retrievers run against a collection in which one of the returned
\* points holds a vector of the wrong shape
\* ------------------------------------------------------------------------
\* the outcomes of a search in which hit i carries such a vector
MalformedOutcomes ==
    UNION {{[ok |-> TRUE, hits |-> [h EXCEPT ![i].vector = MalformedVector]] : i \in DOMAIN h} :
              h \in SearchResults(MaxHits)}

InitScoring ==
    /\ pc = "retriever"
    /\ request = NoRequest
    /\ api_key = FALSE
    /\ session = "none"
    /\ pear_ranker = {}
    /\ top_attractions = <<>>
    /\ attractions = <<>>
    /\ clusterer = NoClusterer
    /\ algorithm = ""
    /\ valid_attractions = <<>>
    /\ distance_matrix = <<>>
    /\ clusters = <<>>
    /\ order_index = 0
    /\ ranked_clusters = <<>>
    /\ response = NoResponse
    /\ index \in MalformedOutcomes
    /\ runs = [r \in RunIds |-> NoRun]
    /\ locations_file_exists = TRUE
    /\ coordinate_service = "none"
    /\ lookups = <<>>
    /\ route_info = NoRoute
    /\ tour = {}

ScoringSpec == InitScoring /\ [][RetrieverNext]_vars

\* ------------------------------------------------------------------------
\* Properties
\* ------------------------------------------------------------------------
\* the cluster list is past the balancing pass of smart clustering
AfterBalancing ==
    /\ algorithm = "smart_clustering"
    /\ pc \in {"order", "clustered", "done"}
    /\ Len(valid_attractions) >= clusterer.min_attractions_per_cluster

Sizes(cs) == {Len(cs[i].attractions) : i \in DOMAIN cs}

\* C1: with at least MIN_PER_CLUSTER coordinate-bearing candidates, every
\* cluster smart clustering holds after the balancing pass has between
\* MIN_PER_CLUSTER and MAX_PER_CLUSTER attractions.
C1_SizeWithinBounds ==
    AfterBalancing =>
        \A n \in Sizes(clusters) :
            /\ clusterer.min_attractions_per_cluster <= n
            /\ n <= clusterer.max_attractions_per_cluster

\* the ids of the attractions of one day of the response
DayIds(day) == {day.attractions[k].id : k \in DOMAIN day.attractions}

Days == response.daily_itineraries

\* C2: in a finished plan, each attraction id appears in at most one of the
\* selected clusters (days).
C2_DaysDisjoint ==
    pc = "done" =>
        \A d1 \in DOMAIN Days, d2 \in DOMAIN Days :
            d1 # d2 => DayIds(Days[d1]) \cap DayIds(Days[d2]) = {}

\* a plan of two days was made from more clusters than the partition was
\* asked for, so a split or an orphan cluster was made by the balancing pass
C2_Witness ==
    /\ pc = "done"
    /\ Len(Days) >= 2
    /\ Len(clusters) > clusterer.target_clusters
    /\ \E d \in DOMAIN Days : Len(Days[d].attractions) >= 2

IsPermutationOfIndices(order, n) ==
    /\ Len(order) = n
    /\ {order[k] : k \in DOMAIN order} = 0..(n - 1)

\* C3: every cluster create_balanced_clusters returns, under any algorithm
\* and on every path, has an optimal_order that is a permutation of
\* 0..len(attractions)-1.
C3_OrderIsPermutation ==
    pc = "clustered" =>
        \A i \in DOMAIN clusters :
            /\ clusters[i].optimal_order # {}
            /\ \A o \in clusters[i].optimal_order :
                  IsPermutationOfIndices(o, Len(clusters[i].attractions))

\* the retrieved candidates whose name the gazetteer cannot resolve
Unresolved == {top_attractions[i].id : i \in {j \in DOMAIN top_attractions :
                                                 get_coordinates(top_attractions[j].name) = {}}}

\* C4: a retrieved candidate the gazetteer cannot resolve is dropped before
\* clustering and appears in no day of the plan.
C4_UnresolvedDropped ==
    /\ \A i \in DOMAIN attractions : attractions[i].id \notin Unresolved
    /\ \A d \in DOMAIN Days : DayIds(Days[d]) \cap Unresolved = {}

\* C5: every attraction that is clustered, and every attraction of every
\* cluster, has both a latitude and a longitude.
C5_CoordinateCompleteness ==
    /\ \A i \in DOMAIN valid_attractions :
          valid_attractions[i].latitude # None /\ valid_attractions[i].longitude # None
    /\ \A i \in DOMAIN clusters : \A j \in DOMAIN clusters[i].attractions :
          /\ clusters[i].attractions[j].latitude # None
          /\ clusters[i].attractions[j].longitude # None

\* clusters were returned for an input in which, within the cut, some
\* candidate had no coordinates
C5_Witness ==
    /\ pc = "clustered"
    /\ clusters # <<>>
    /\ \E i \in DOMAIN attractions : i <= TopK /\ attractions[i].latitude = None
    /\ Len(valid_attractions) >= 2

\* C6: every day of a plan has total_travel_time_minutes at most
\* MAX_DAILY_TRAVEL_HOURS * 60 (120, 180 or 270 minutes for minimal,
\* balanced or extensive).
C6_DailyTravelBounded ==
    pc = "done" =>
        \A d \in DOMAIN Days :
            Days[d].cluster_info.travel_time_minutes
                <= travel_time_mapping(request.daily_travel_preference)

\* max pairwise haversine distance between the members of a cluster
max_pairwise_distance(cluster) ==
    LET n == Len(cluster.attractions)
    IN SetMax(Pairs(n), [p \in Pairs(n) |->
                  attraction_distance(cluster.attractions[p[1]], cluster.attractions[p[2]])])

\* C7: every cluster smart clustering returns has a maximum pairwise distance
\* of at most MAX_CLUSTER_RADIUS_KM.
C7_RadiusHonoured ==
    AfterBalancing =>
        \A i \in DOMAIN clusters :
            max_pairwise_distance(clusters[i]) <= clusterer.max_cluster_radius_km

\* the score the ranking is claimed to use, times 1000
ClaimedScore(cluster) ==
    cluster.value_per_hour
    * (IF cluster.is_balanced THEN 12 ELSE 10)
    * (IF cluster.total_travel_time_minutes > 180 THEN 7 ELSE 10)
    * (IF /\ MIN_PER_CLUSTER <= Len(cluster.attractions)
          /\ Len(cluster.attractions) <= request.max_attractions_per_day
       THEN 11 ELSE 10)

IsPermutationOf(a, b) ==
    /\ Len(a) = Len(b)
    /\ \E f \in [DOMAIN a -> DOMAIN b] :
          /\ \A i \in DOMAIN a, j \in DOMAIN a : i # j => f[i] # f[j]
          /\ \A i \in DOMAIN a : a[i] = b[f[i]]

\* C8: the ranking is a permutation of the clusters in non-increasing order
\* of score; day k, for k = 1..min(D, number of clusters), is the k-th
\* cluster of that order, and total_days is the number of days emitted.
C8_RankedDays ==
    pc = "done" =>
        /\ IsPermutationOf(ranked_clusters, clusters)
        /\ \A k \in DOMAIN ranked_clusters :
              k > 1 => ClaimedScore(ranked_clusters[k - 1]) >= ClaimedScore(ranked_clusters[k])
        /\ Len(Days) = Min2(request.trip_duration_days, Len(clusters))
        /\ \A k \in DOMAIN Days : Days[k].day = k /\ Days[k].cluster = ranked_clusters[k]
        /\ response.total_days = Len(Days)

\* a plan whose ranking moved clusters and whose cut left a cluster out
C8_Witness ==
    /\ pc = "done"
    /\ ranked_clusters # clusters
    /\ Len(clusters) > request.trip_duration_days
    /\ \E k \in DOMAIN ranked_clusters :
          k > 1 /\ ClaimedScore(ranked_clusters[k - 1]) > ClaimedScore(ranked_clusters[k])

\* C9: two runs of the retriever on the same query, context and index
\* output, by separately constructed retrievers without pretrained weights,
\* return the same ranked ids and scores.
C9_RunsAgree ==
    (runs[1].done /\ runs[2].done) =>
        /\ runs[1].raised = runs[2].raised
        /\ runs[1].places = runs[2].places

\* C10: when the embedder or the vector index raises, the call of
\* get_recommendations_from_vector_db raises (it returns no empty result).
C10_IndexFailurePropagates ==
    \A r \in RunIds : (runs[r].done /\ ~index.ok) => runs[r].raised

\* C11: when the index returns no hits, so the retriever returns an empty
\* list, the plan request fails with the "no attractions found" error, status
\* 404, and not with a generic internal error.
C11_EmptyIsNotFound ==
    (pc = "failed" /\ pear_ranker # {} /\ index.ok /\ index.hits = <<>>) =>
        response.status = 404

\* the request carries a trip_duration_days outside 1..30 or a
\* max_attractions_per_day outside 2..6
OutOfRange(body) ==
    \/ body.trip_duration_days < 1 \/ body.trip_duration_days > 30
    \/ body.max_attractions_per_day < 2 \/ body.max_attractions_per_day > 6

\* the positions of a request inside the handler and after it
HandlerSteps == {"retrieve", "enrich", "cluster", "partition", "balance", "order",
                 "clustered", "done", "failed"}

\* C12: a request whose trip_duration_days is outside 1..30 or whose
\* max_attractions_per_day is outside 2..6 is rejected as a validation
\* failure: it reaches no step of the handler and gets neither a plan nor an
\* internal error.
C12_OutOfRangeRejected ==
    (request # NoRequest /\ OutOfRange(request)) =>
        /\ pc \notin HandlerSteps
        /\ response.status \notin {200, 500}

\* C13: get_route_info never raises; without credentials, on a non-OK
\* status, and when the call or the parsing raises, it returns the haversine
\* distance and that distance at 40 km/h as the duration.
C13_RouteFallback ==
    route_info.called =>
        /\ ~route_info.result.raised
        /\ (~api_key \/ route_info.outcome # "ok") =>
              /\ route_info.result.distance_km =
                     haversine_distance(route_info.start[1], route_info.start[2],
                                        route_info.end[1], route_info.end[2])
              /\ route_info.result.duration_minutes =
                     (route_info.result.distance_km * 60) \div 40

\* with a key, the provider answered 200 with a body that has no route, for
\* two points that lie apart
C13_Witness ==
    /\ route_info.called
    /\ api_key
    /\ route_info.outcome = "parse_raises"
    /\ route_info.result.distance_km > 0
    /\ session = "open"

\* C14: every candidate the retriever returns has pear_score = 0.7 *
\* neural_score + 0.3 * similarity_score, and that pear_score lies between 0
\* and 1, whatever similarity the index returned (negative ones included).
C14_PearScoreBounds ==
    \A r \in RunIds : \A i \in DOMAIN runs[r].places :
        LET place == runs[r].places[i]
        IN /\ place.pear_score = 7 * place.neural_score + 3 * place.similarity_score
           /\ 0 <= place.pear_score
           /\ place.pear_score <= 1000

\* position of the hit with the given id in the list the index returned
HitPosition(id) == CHOOSE i \in DOMAIN index.hits : index.hits[i].id = id

\* the hits of the index that run r did not return
NotReturned(r) ==
    {i \in DOMAIN index.hits :
        \A k \in DOMAIN runs[r].places : runs[r].places[k].id # index.hits[i].id}

\* pear_score of hit i under the weights of run r
HitScore(r, i) ==
    LET w == CHOOSE x \in runs[r].weights : TRUE
        neural_score == neural_ranker(w, QUERY_EMBED, CONTEXT_EMBED, index.hits[i].vector)
    IN 7 * neural_score + 3 * index.hits[i].score

\* C15: the retriever returns min(top_k, number of hits) candidates in
\* non-increasing pear_score order; each returned candidate scores at least as
\* high as each hit left out; candidates of equal pear_score keep the order
\* in which the index returned them.
C15_TopKOrdered ==
    \A r \in RunIds : (runs[r].done /\ index.ok) =>
        LET places == runs[r].places
        IN /\ Len(places) = Min2(RetrieverTopK, Len(index.hits))
           /\ \A k \in DOMAIN places : \E i \in DOMAIN index.hits : index.hits[i].id = places[k].id
           /\ \A k \in DOMAIN places, l \in DOMAIN places :
                 k < l => /\ places[k].pear_score >= places[l].pear_score
                          /\ places[k].id # places[l].id
                          /\ places[k].pear_score = places[l].pear_score
                                => HitPosition(places[k].id) < HitPosition(places[l].id)
           /\ \A k \in DOMAIN places, i \in NotReturned(r) :
                 /\ places[k].pear_score >= HitScore(r, i)
                 /\ places[k].pear_score = HitScore(r, i) => HitPosition(places[k].id) < i

\* a run on more hits than top_k in which two hits of equal pear_score were
\* separated by the cut
C15_Witness ==
    \E r \in RunIds :
        /\ runs[r].done
        /\ Len(index.hits) > RetrieverTopK
        /\ Len(runs[r].places) = RetrieverTopK
        /\ \E k \in DOMAIN runs[r].places, i \in NotReturned(r) :
              runs[r].places[k].pear_score = HitScore(r, i)

\* the entries of the gazetteer, by position, and their coordinates
Entries == DOMAIN name_to_coords

EntryCoordinates(i) == {<<name_to_coords[i].latitude, name_to_coords[i].longitude>>}

\* what resolving a name is claimed to return
ClaimedResolution(name) ==
    LET exact == {i \in Entries : name_to_coords[i].name = lower(name)}
        scoring == {i \in Entries :
                       partial_ratio(lower(name), name_to_coords[i].name) >= 80}
        highest == {i \in scoring : \A j \in scoring :
                       partial_ratio(lower(name), name_to_coords[i].name)
                           >= partial_ratio(lower(name), name_to_coords[j].name)}
    IN IF exact # {} THEN EntryCoordinates(CHOOSE i \in exact : TRUE)
       ELSE IF highest # {}
            THEN EntryCoordinates(CHOOSE i \in highest : \A j \in highest : i <= j)
       ELSE {}

\* C16: resolving a name returns the exact case-insensitive match when there
\* is one; otherwise the entry with the highest fuzzy score among those scoring
\* at least 80, the first such entry on a tie; otherwise None.  Resolving the
\* same name twice returns the same entry.
C16_GazetteerResolution ==
    /\ \A k \in DOMAIN lookups :
          ~lookups[k].raised => lookups[k].coordinates = ClaimedResolution(lookups[k].name)
    /\ \A k \in DOMAIN lookups, l \in DOMAIN lookups :
          (lookups[k].name = lookups[l].name /\ ~lookups[k].raised /\ ~lookups[l].raised)
              => lookups[k].coordinates = lookups[l].coordinates

\* "Temple" scores 100 against two entries; it was resolved twice, to the
\* first of them
C16_Witness ==
    /\ Len(lookups) = 2
    /\ lookups[1].name = "Temple" /\ lookups[2].name = "Temple"
    /\ lookups[1].coordinates = {<<786, 8065>>}
    /\ lookups[2].coordinates = {<<786, 8065>>}

\* C17: a missing locations file is fatal at startup: a process whose
\* gazetteer cannot be loaded accepts no plan request and answers none.
C17_GazetteerMissingFatal ==
    ~locations_file_exists =>
        /\ request = NoRequest
        /\ pc \notin HandlerSteps
        /\ response = NoResponse

\* the clusters whose visiting order was computed from a distance matrix
OrderedBySearch ==
    {i \in DOMAIN clusters : Len(clusters[i].attractions) > 2 /\ clusters[i].optimal_order # {}}

\* minutes of driving along the hops tour[0] -> tour[1] -> ... of a cluster,
\* at 40 km/h, on the matrix the router gives when the calls in failed fail
HopMinutes(cluster, failed) ==
    LET order == CHOOSE o \in cluster.optimal_order : TRUE
        matrix == get_distance_matrix(api_key, locations_of(cluster.attractions), failed)
        hops == 1..(Len(order) - 1)
        km == [k \in hops |-> matrix[<<order[k] + 1, order[k + 1] + 1>>]]
    IN (SetSum(hops, km) * 60) \div 40

\* C18: after the visiting order of a cluster of more than two attractions is
\* computed, its total_travel_time_minutes is the sum of the driving times of
\* the consecutive hops of optimal_order, and the day reports that value.
C18_TravelTimeIsTourSum ==
    /\ \A i \in OrderedBySearch :
          \E failed \in FailurePatterns(Len(clusters[i].attractions)) :
              clusters[i].total_travel_time_minutes = HopMinutes(clusters[i], failed)
    /\ pc = "done" =>
          \A d \in DOMAIN Days :
              (Len(Days[d].cluster.attractions) > 2 /\ Days[d].cluster.optimal_order # {}) =>
                  \E failed \in FailurePatterns(Len(Days[d].cluster.attractions)) :
                      Days[d].cluster_info.travel_time_minutes
                          = HopMinutes(Days[d].cluster, failed)

\* sum of the visit minutes of the members of a cluster
VisitMinutes(cluster) ==
    SetSum(DOMAIN cluster.attractions,
           [k \in DOMAIN cluster.attractions |-> cluster.attractions[k].visit_duration_minutes])

\* C19: in every cluster create_balanced_clusters returns, estimated_time_hours
\* is (the members' visit minutes + the cluster's stored
\* total_travel_time_minutes) / 60; both sides are compared in minutes.
C19_EstimatedTimeFormula ==
    pc = "clustered" =>
        \A i \in DOMAIN clusters :
            clusters[i].estimated_time_hours
                = VisitMinutes(clusters[i]) + clusters[i].total_travel_time_minutes

\* the indices of a tour before position k
Visited(t, k) == {t[l] : l \in 1..(k - 1)}

\* C20: on a matrix of more than two points the greedy tour starts at index 0
\* and each next index is an unvisited index at minimum distance from the
\* current one, the lowest such index on a tie; so the second index is the
\* argmin over j # 0 of dist[0][j].
C20_GreedyTour ==
    \A t \in tour :
        LET m == shape(distance_matrix)
            dist(i, j) == distance_matrix[<<i + 1, j + 1>>]
        IN m > 2 =>
              /\ Len(t) = m
              /\ t[1] = 0
              /\ \A k \in 2..m :
                    LET unvisited == (0..(m - 1)) \ Visited(t, k)
                    IN /\ t[k] \in unvisited
                       /\ \A y \in unvisited :
                             /\ dist(t[k - 1], t[k]) <= dist(t[k - 1], y)
                             /\ dist(t[k - 1], t[k]) = dist(t[k - 1], y) => t[k] <= y
              /\ \A j \in 1..(m - 1) :
                    /\ dist(0, t[2]) <= dist(0, j)
                    /\ dist(0, t[2]) = dist(0, j) => t[2] <= j

\* four points: 1 and 2 are equally near to 0 and 1 is taken; from 1 the
\* nearest is 3, which is visited before 2
C20_Witness ==
    /\ tour = {<<0, 1, 3, 2>>}
    /\ distance_matrix[<<1, 2>>] = distance_matrix[<<1, 3>>]
    /\ distance_matrix[<<1, 2>>] < distance_matrix[<<1, 4>>]
    /\ distance_matrix[<<2, 4>>] < distance_matrix[<<2, 3>>]

\* C21: in every cluster create_balanced_clusters returns, for every
\* configured MIN_PER_CLUSTER and MAX_PER_CLUSTER, is_balanced is true exactly
\* when the maximum pairwise distance is at most 50 km, estimated_time_hours
\* is at most 14, the size lies between MIN_PER_CLUSTER and MAX_PER_CLUSTER + 2
\* and value_per_hour exceeds 0.1.
C21_BalancedFlag ==
    pc = "clustered" =>
        \A i \in DOMAIN clusters :
            clusters[i].is_balanced <=>
                /\ max_pairwise_distance(clusters[i]) <= 50
                /\ clusters[i].estimated_time_hours <= 14 * 60
                /\ clusterer.min_attractions_per_cluster <= Len(clusters[i].attractions)
                /\ Len(clusters[i].attractions) <= clusterer.max_attractions_per_cluster + 2
                /\ clusters[i].value_per_hour > 100

\* can_admit as it is claimed: room left, and the centre and every member
\* within the radius
CanAdmit(attraction, cluster, cfg) ==
    /\ Len(cluster.attractions) < cfg.max_attractions_per_cluster
    /\ haversine_distance(attraction.latitude, attraction.longitude,
                          cluster.center_lat, cluster.center_lng) <= cfg.max_cluster_radius_km
    /\ \A k \in DOMAIN cluster.attractions :
          attraction_distance(attraction, cluster.attractions[k]) <= cfg.max_cluster_radius_km

\* the redistribution of the orphans, one after the other, onto the cluster
\* list cs: each step attaches to a cluster that admits the orphan, or makes
\* a singleton when no cluster admits it
RECURSIVE OrphanStepsAsClaimed(_, _, _)
OrphanStepsAsClaimed(orphans, cs, cfg) ==
    IF orphans = <<>> THEN TRUE
    ELSE LET orphan == Head(orphans)
             after == place_orphan(orphan, cs, cfg)
             admitting == {i \in DOMAIN cs : CanAdmit(orphan, cs[i], cfg)}
             changed == {i \in DOMAIN cs : after[i] # cs[i]}
         IN /\ IF Len(after) = Len(cs)
               THEN changed # {} /\ changed \subseteq admitting
               ELSE admitting = {}
            /\ OrphanStepsAsClaimed(Tail(orphans), after, cfg)

\* C22: during orphan redistribution an orphan is attached only to a cluster
\* that can admit it, and a singleton cluster is made for it only if no
\* existing cluster can admit it.
C22_OrphanPlacement ==
    /\ pc = "balance" =>
          LET r == balance_scan(clusters, clusterer, 1, <<>>, <<>>)
          IN OrphanStepsAsClaimed(r[2], r[1], clusterer)
    /\ (pc = "partition" /\ algorithm = "dbscan_routing") =>
          LET cluster_labels == dbscan_fit_predict(distance_matrix, Len(valid_attractions),
                                    clusterer.max_cluster_radius_km,
                                    clusterer.min_attractions_per_cluster)
          IN OrphanStepsAsClaimed(members_of(valid_attractions, cluster_labels, -1),
                                  clusters_from_labels(valid_attractions, cluster_labels),
                                  clusterer)

\* the ids of the members of a cluster or of a list of attractions
MemberIds(members) == {members[i].id : i \in DOMAIN members}

\* the k-th hand (0-based) of a round-robin deal of a list into n hands
RoundRobinHand(sorted, k, n) ==
    {sorted[j].id : j \in {x \in DOMAIN sorted : (x - 1) % n = k}}

\* C23: every initial cluster whose size n exceeds MAX_PER_CLUSTER is split
\* into exactly ceil(n / MAX_PER_CLUSTER) clusters that partition its members,
\* dealt round-robin over the members sorted by descending pear_score: after
\* the first loop of the balance pass the clusters holding members of such a
\* cluster are exactly the hands of that deal.
C23_OversizeSplit ==
    (pc = "balance") =>
        LET balanced_clusters == balance_scan(clusters, clusterer, 1, <<>>, <<>>)[1]
            MAX_PER_CLUSTER == clusterer.max_attractions_per_cluster
        IN \A c \in DOMAIN clusters :
              LET n == Len(clusters[c].attractions)
                  n_splits == (n + MAX_PER_CLUSTER - 1) \div MAX_PER_CLUSTER
                  sorted == sort_by_pear_score(clusters[c].attractions)
                  parts == {j \in DOMAIN balanced_clusters :
                               MemberIds(balanced_clusters[j].attractions)
                                   \cap MemberIds(clusters[c].attractions) # {}}
              IN n > MAX_PER_CLUSTER =>
                    /\ Cardinality(parts) = n_splits
                    /\ \A k \in 0..(n_splits - 1) :
                          \E j \in parts :
                             MemberIds(balanced_clusters[j].attractions)
                                 = RoundRobinHand(sorted, k, n_splits)

\* the coordinate-bearing attractions among the first TopK inputs
ValidInputs ==
    LET cut == Take(attractions, TopK)
    IN Restrict(cut, {i \in DOMAIN cut : has_coordinates(cut[i])}, 1)

\* C24: when at least one but fewer than MIN_PER_CLUSTER candidates have
\* coordinates, clustering emits exactly one cluster containing all of them
\* with optimal_order = [0..size-1]; a single candidate gives one cluster of
\* size 1 with optimal_order = [0] and total_travel_time_minutes = 0.
C24_SingleClusterPath ==
    (/\ pc = "clustered"
     /\ Len(ValidInputs) >= 1
     /\ Len(ValidInputs) < clusterer.min_attractions_per_cluster)
        => /\ Len(clusters) = 1
           /\ clusters[1].attractions = ValidInputs
           /\ clusters[1].optimal_order = {[k \in 1..Len(ValidInputs) |-> k - 1]}
           /\ (Len(ValidInputs) = 1 => clusters[1].total_travel_time_minutes = 0)

\* the hits whose scoring raises
Unscorable == {i \in DOMAIN index.hits : scoring_raises(index.hits[i])}

\* C25: if scoring one retrieved candidate raises, that candidate is kept
\* with pear_score = 0.5 and every other candidate of the same retrieval is
\* still scored and returned normally: the run returns min(top_k, number of
\* hits) places, the unscorable ones with 0.5 and the others with their own
\* score.
C25_ScoringFallback ==
    \A r \in RunIds : (runs[r].done /\ index.ok /\ Unscorable # {}) =>
        LET places == runs[r].places
        IN /\ Len(places) = Min2(RetrieverTopK, Len(index.hits))
           /\ \A k \in DOMAIN places :
                 \E i \in DOMAIN index.hits :
                    /\ index.hits[i].id = places[k].id
                    /\ places[k].pear_score = IF i \in Unscorable THEN 500 ELSE HitScore(r, i)

\* C26: in every emitted cluster, region_name is the region-table lookup of
\* the cluster's current centre, the mean of its members' coordinates,
\* including for clusters that received attractions during redistribution.
C26_RegionOfCentre ==
    pc = "clustered" =>
        \A i \in DOMAIN clusters :
            clusters[i].attractions # <<>> =>
                LET members == clusters[i].attractions
                    center_lat == SeqSum(Latitudes(members)) \div Len(members)
                    center_lng == SeqSum(Longitudes(members)) \div Len(members)
                IN /\ clusters[i].center_lat = center_lat
                   /\ clusters[i].center_lng = center_lng
                   /\ clusters[i].region_name = {get_region_name(center_lat, center_lng)}

\* C27: smart clustering neither loses nor duplicates candidates: the
\* attractions across the clusters create_balanced_clusters returns are
\* exactly the coordinate-bearing attractions among the first TopK inputs,
\* each in exactly one cluster.
C27_NoLossNoDuplicate ==
    (pc = "clustered" /\ algorithm \notin {"kmeans_routing", "dbscan_routing"}) =>
        /\ UNION {MemberIds(clusters[i].attractions) : i \in DOMAIN clusters}
              = MemberIds(ValidInputs)
        /\ SeqSum([i \in DOMAIN clusters |-> Len(clusters[i].attractions)]) = Len(ValidInputs)
        /\ \A i \in DOMAIN clusters :
              Cardinality(MemberIds(clusters[i].attractions)) = Len(clusters[i].attractions)

\* a smart clustering of five candidates that dissolved a cluster, gave an
\* orphan a cluster of its own and attached a later orphan to it (its region
\* is still the one of the first member)
C27_Witness ==
    /\ pc = "clustered"
    /\ algorithm \notin {"kmeans_routing", "dbscan_routing"}
    /\ Len(ValidInputs) = 5
    /\ Len(clusters) >= 3
    /\ \E i \in DOMAIN clusters :
          /\ Len(clusters[i].attractions) = 2
          /\ clusters[i].region_name
                # {get_region_name(clusters[i].center_lat, clusters[i].center_lng)}

\* C28: the cluster_id values of the clusters one call of
\* create_balanced_clusters returns are pairwise distinct.
C28_DistinctClusterIds ==
    pc = "clustered" =>
        \A i \in DOMAIN clusters, j \in DOMAIN clusters :
            i # j => clusters[i].cluster_id # clusters[j].cluster_id

\* C29: every plan request that opened the route provider's HTTP session
\* eventually closes it, on every exit path of the handler.
C29_SessionEventuallyClosed == (session = "open") ~> (session = "closed")

\* C30: for any list of n locations get_distance_matrix returns an n x n
\* matrix that is symmetric with a zero diagonal, whatever mix of provider
\* answers and haversine fallbacks the pairwise route calls produced.
C30_MatrixSymmetric ==
    pc = "partition" =>
        LET n == Len(valid_attractions)
        IN /\ DOMAIN distance_matrix = (1..n) \X (1..n)
           /\ \A i \in 1..n : distance_matrix[<<i, i>>] = 0
           /\ \A i \in 1..n, j \in 1..n : distance_matrix[<<i, j>>] = distance_matrix[<<j, i>>]

\* a matrix of three or more locations built with a key, in which one pair
\* holds the provider's distance and another the haversine fallback
C30_Witness ==
    /\ pc = "partition"
    /\ api_key
    /\ Len(valid_attractions) >= 3
    /\ \E p \in Pairs(Len(valid_attractions)), q \in Pairs(Len(valid_attractions)) :
          /\ distance_matrix[p] = attraction_distance(valid_attractions[p[1]], valid_attractions[p[2]])
          /\ distance_matrix[p] > 0
          /\ distance_matrix[q] # attraction_distance(valid_attractions[q[1]], valid_attractions[q[2]])

====
